---- MODULE Spec2Model ----
(***************************************************************************)
(* Model of the reconciliation engine of zkPoll-System:                    *)
(*   - the PollList confirmation watcher (refreshTrigger effect),          *)
(*   - the local poll store and syncPollMetadata (the cache merger),       *)
(*   - PollList.getTotalPolls (the count decoder),                         *)
(*   - syncAllPollsMetadata (the batch merge),                             *)
(*   - CreatePoll: handleSubmit and the status callback of signAndSend,    *)
(*   - PollList.loadPolls and the list it displays.                        *)
(* Six specifications share the module: SpecWatch, SpecMerge, SpecDecode,  *)
(* SpecBatch, SpecCreate and SpecList (SpecListFair adds the scheduling of *)
(* the periodic reload).  Each one moves the variables of its part and     *)
(* leaves the others at their initial values.                              *)
(***************************************************************************)
EXTENDS Integers, Sequences, FiniteSets, TLC

VARIABLES
  \* ---- confirmation watcher (PollList refreshTrigger effect) ----
  timeoutId,            \* handle of the 3000 ms settle timer
  checkInterval,        \* handle of the 2000 ms polling interval
  baselinePc,           \* position of the settle callback
  attempts,             \* closure variable `attempts`
  previousTotalPolls,   \* closure variable `previousTotalPolls`
  inflight,             \* suspended interval callbacks, counted by the await they are at
  loads,                \* loadPolls invocations made by the watcher, counted by branch
  lastLoad,             \* the latest loadPolls invocation: its branch and the attempts value
  totalPolls,           \* the ledger's aggregate count
  disposedAt,           \* phase in which the effect cleanup ran ("none" if it did not)
  firstExceed,          \* attempts value when a polled count first exceeded the baseline (0: none)
  detectAt,             \* attempts value of the first detection refresh (0: none)
  baselineRead,         \* value captured as baseline (-1 before the capture)
  attemptsAtClear,      \* value of attempts when the interval was first cleared (-1: not yet)
  totalAtStart,         \* the ledger's aggregate count when the effect body ran (-1: not yet)
  \* ---- local poll store and syncPollMetadata ----
  store,                \* object store 'polls' of IndexedDB, keyed by pollId
  ledger,               \* the polls held by the contract, by id
  now,                  \* Date.now()
  syncPc,               \* position of the running syncPollMetadata call
  syncId,               \* its pollId argument
  syncResp,             \* what the getPoll query of that call answered
  syncContract,         \* its contractData
  syncLocal,            \* its localMetadata
  syncMeta,             \* its syncedMetadata
  syncResult,           \* its return value
  syncPuts,             \* put requests that call has issued
  syncSaveFailed,       \* whether its savePollMetadata call rejected
  zeroSave,             \* how the latest savePollMetadata call with a falsy pollId ended
  \* ---- PollList.getTotalPolls ----
  queryResult,          \* what contract.query.getTotalPolls answered
  decodedTotal,         \* what getTotalPolls returned for it (-1: not called yet)
  \* ---- syncAllPollsMetadata ----
  batchPc,              \* "idle", "count", "loop", "done"
  batchCount,           \* totalPolls of the call (-1: not decoded)
  batchI,               \* the loop variable i
  syncedPolls,          \* pollId of the records pushed so far, in push order
  batchMerged,          \* the ids whose syncPollMetadata call returned a record
  batchReturn,          \* "none", "list" (return syncedPolls), "empty" (the catch's [])
  \* ---- App and CreatePoll ----
  appNodeType,          \* nodeType of App: the network selected in the application
  createProps,          \* which optional props the parent passes to CreatePoll
  loading,              \* loading of CreatePoll
  createError,          \* error of CreatePoll: "none" or which setError call set it
  success,              \* success of CreatePoll
  sent,                 \* calls of signAndSend so far
  receipt,              \* what the chain reports for the transaction sent last
  blockInfo,            \* blockNumber, blockHash, transactionHash of handleSubmit
  totalAtSubmit,        \* the ledger's aggregate count when signAndSend was called
  runs,                 \* the status callback's invocation for InBlock and for Finalized
  \* ---- PollList.loadPolls ----
  polls,                \* polls of PollList: the ids of the displayed list, in order
  listLoading,          \* loading of PollList
  listError,            \* whether error of PollList is set
  loadRuns,             \* the loadPolls invocations in flight, by slot; superseded:
                        \* an invocation that started later has set polls
  loadOrder,            \* the slots in flight, in the order their invocations started
  failures              \* remote reads of the list that failed so far

watchVars == <<timeoutId, checkInterval, baselinePc, attempts, previousTotalPolls,
               inflight, loads, lastLoad, totalPolls, disposedAt, firstExceed,
               detectAt, baselineRead, attemptsAtClear, totalAtStart>>

mergeVars == <<store, ledger, now, syncPc, syncId, syncResp, syncContract, syncLocal,
               syncMeta, syncResult, syncPuts, syncSaveFailed, zeroSave>>

decodeVars == <<queryResult, decodedTotal>>

batchVars == <<batchPc, batchCount, batchI, syncedPolls, batchMerged, batchReturn>>

createVars == <<appNodeType, createProps, loading, createError, success, sent, receipt,
                blockInfo, totalAtSubmit, runs>>

listVars == <<polls, listLoading, listError, loadRuns, loadOrder, failures>>

vars == <<watchVars, mergeVars, decodeVars, batchVars, createVars, listVars>>

notWatchVars == <<mergeVars, decodeVars, batchVars, createVars, listVars>>
notMergeVars == <<watchVars, decodeVars, batchVars, createVars, listVars>>
notDecodeVars == <<watchVars, mergeVars, batchVars, createVars, listVars>>
notBatchVars == <<watchVars, decodeVars, createVars, listVars>>

\* ---------------------------------------------------------------------
\* Bounds of the model
\* ---------------------------------------------------------------------
MaxInFlight == 2     \* interval callbacks that may be suspended at the same time
MaxTotal == 2        \* largest aggregate count the ledger reaches
MaxInitTotal == 1    \* largest aggregate count at the start of a watch
MaxId == 1           \* largest poll id of the ledger and of the store
MaxNow == 2          \* latest value of the clock
MaxCount == 12       \* largest count a query result carries
MaxBatch == 3        \* largest count syncAllPollsMetadata decodes
MaxSubmit == 2       \* most submissions of the create-poll form
MaxLoads == 2        \* loadPolls invocations that may be in flight at the same time
MaxFailures == 1     \* remote reads of the list that may fail

\* Largest key of the object store
MaxKey ==
  LET ids == {MaxId, MaxBatch, MaxTotal} IN CHOOSE k \in ids : \A j \in ids : j <= k

\* ---------------------------------------------------------------------
\* Program constants
\* ---------------------------------------------------------------------
maxAttempts == 20

\* ---------------------------------------------------------------------
\* Values
\* ---------------------------------------------------------------------
Null == [null |-> TRUE]              \* null
UndefNum == -1                       \* undefined, in a field that holds a number
UndefStr == "undefined"              \* undefined, in a field that holds a string
UndefSeq == <<"undefined">>          \* undefined, in a field that holds an array
NoRow == [row |-> FALSE]             \* store.get() finds nothing
NoPoll == [exists |-> FALSE]         \* the contract holds no poll under an id

\* The variables of the store and of syncPollMetadata before anything ran
IdleMerge ==
  /\ store = [k \in 0..MaxKey |-> NoRow]
  /\ now = 1
  /\ syncPc = "idle"
  /\ syncId = 0
  /\ syncResp = "none"
  /\ syncContract = Null
  /\ syncLocal = Null
  /\ syncMeta = Null
  /\ syncResult = Null
  /\ syncPuts = 0
  /\ syncSaveFailed = FALSE
  /\ zeroSave = [outcome |-> "none", changed |-> FALSE]

\* The variables of getTotalPolls before any call
IdleDecode ==
  /\ queryResult = Null
  /\ decodedTotal = -1

\* What the chain reports before a transaction is in a block
NoReceipt == [outcome |-> "none", dispatchError |-> FALSE, events |-> << >>, id |-> 0]

\* An invocation of the status callback that has not begun
NoRun == [pc |-> "none", pollId |-> 0, eventsId |-> -1, countRead |-> -1, createdAt |-> 0,
          block |-> "unset", saved |-> "none", notified |-> FALSE]

StatusUpdates == {"InBlock", "Finalized"}

\* CreatePoll as rendered by App (VoteModal.tsx 820-825): neither nodeType nor
\* onPollCreated is passed
AppRendering == [nodeType |-> FALSE, onPollCreated |-> FALSE]

\* The variables of CreatePoll when the form opens
IdleCreate ==
  /\ appNodeType = "ink-local"
  /\ createProps = AppRendering
  /\ loading = FALSE
  /\ createError = "none"
  /\ success = FALSE
  /\ sent = 0
  /\ receipt = NoReceipt
  /\ blockInfo = "unset"
  /\ totalAtSubmit = -1
  /\ runs = [u \in StatusUpdates |-> NoRun]

\* The variables of syncAllPollsMetadata before any call
IdleBatch ==
  /\ batchPc = "idle"
  /\ batchCount = -1
  /\ batchI = 0
  /\ syncedPolls = << >>
  /\ batchMerged = {}
  /\ batchReturn = "none"

\* ---------------------------------------------------------------------
\* Confirmation watcher
\* ---------------------------------------------------------------------

InFlightCount(f) == f["query"] + f["keep"] + f["detect"] + f["timeout"]

LoadCount(l) == l.keep + l.detect + l.timeout

\* getCurrentTotal: the decoded count, or 0 when the query or its decoding fails
GetCurrentTotalOutcomes(total) == {total, 0}

\* `previousTotalPolls = currentTotal` left out of the detection branch
NextPrevious_Stale(currentTotal, previous) == previous

\* `previousTotalPolls = currentTotal` in the detection branch
NextPrevious(currentTotal, previous) ==
  IF currentTotal > previous THEN currentTotal ELSE previous

\* The if / else-if chain of the interval callback, with the bound off by one
Branch_OffByOne(currentTotal, previous, att) ==
  IF currentTotal > previous THEN "detect"
  ELSE IF att >= maxAttempts - 1 THEN "timeout"
  ELSE IF att % 3 = 0 THEN "keep"
  ELSE "none"

\* The if / else-if chain of the interval callback
Branch(currentTotal, previous, att) ==
  IF currentTotal > previous THEN "detect"
  ELSE IF att >= maxAttempts THEN "timeout"
  ELSE IF att % 3 = 0 THEN "keep"
  ELSE "none"

\* clearInterval(checkInterval), guarded by `if (checkInterval)`
ClearInterval(h) == IF h = "null" THEN "null" ELSE "cleared"

WatchPhase ==
  IF timeoutId = "null" THEN "idle"
  ELSE IF timeoutId = "pending" THEN "settle"
  ELSE IF timeoutId = "cleared" THEN "stopped"
  ELSE IF baselinePc = "inflight" THEN "baseline"
  ELSE IF checkInterval = "active" THEN "polling"
  ELSE "stopped"

\* The state of PollList when it mounts: the variables of the watcher before
\* the effect body runs, the list before any loadPolls
IdleWatch ==
  /\ timeoutId = "null"
  /\ checkInterval = "null"
  /\ baselinePc = "none"
  /\ attempts = 0
  /\ previousTotalPolls = 0
  /\ inflight = [a \in {"query", "keep", "detect", "timeout"} |-> 0]
  /\ loads = [keep |-> 0, detect |-> 0, timeout |-> 0]
  /\ lastLoad = [kind |-> "none", at |-> 0]
  /\ disposedAt = "none"
  /\ firstExceed = 0
  /\ detectAt = 0
  /\ baselineRead = -1
  /\ attemptsAtClear = -1
  /\ totalAtStart = -1
  /\ polls = << >>
  /\ listLoading = TRUE
  /\ listError = FALSE
  /\ loadRuns = [s \in 1..MaxLoads |->
                  [pc |-> "none", total |-> 0, i |-> 0, pollsData |-> << >>,
                   superseded |-> FALSE]]
  /\ loadOrder = << >>
  /\ failures = 0

InitWatch ==
  /\ IdleWatch
  /\ totalPolls \in 0..MaxInitTotal
  /\ IdleMerge
  /\ ledger = [k \in 1..MaxKey |-> NoPoll]
  /\ IdleDecode
  /\ IdleBatch
  /\ IdleCreate

\* The effect body runs with a valid refreshTrigger and queryAddress
StartWatch ==
  /\ timeoutId = "null"
  /\ timeoutId' = "pending"
  /\ totalAtStart' = totalPolls
  /\ UNCHANGED <<checkInterval, baselinePc, attempts, previousTotalPolls, inflight,
                 loads, lastLoad, totalPolls, disposedAt, firstExceed, detectAt,
                 baselineRead, attemptsAtClear>>
  /\ UNCHANGED notWatchVars

\* The settle timer fires: attempts = 0, then await getCurrentTotal()
SettleFires ==
  /\ timeoutId = "pending"
  /\ timeoutId' = "fired"
  /\ attempts' = 0
  /\ baselinePc' = "inflight"
  /\ UNCHANGED <<checkInterval, previousTotalPolls, inflight, loads, lastLoad,
                 totalPolls, disposedAt, firstExceed, detectAt, baselineRead,
                 attemptsAtClear>>
  /\ UNCHANGED totalAtStart
  /\ UNCHANGED notWatchVars

\* The baseline query returns: previousTotalPolls is set and setInterval is called
BaselineResolves ==
  /\ baselinePc = "inflight"
  /\ \E v \in GetCurrentTotalOutcomes(totalPolls) :
       /\ previousTotalPolls' = v
       /\ baselineRead' = v
  /\ baselinePc' = "done"
  /\ checkInterval' = "active"
  /\ UNCHANGED <<timeoutId, attempts, inflight, loads, lastLoad, totalPolls,
                 disposedAt, firstExceed, detectAt, attemptsAtClear>>
  /\ UNCHANGED totalAtStart
  /\ UNCHANGED notWatchVars

\* setInterval fires whether or not earlier callbacks have returned
TickGuard(h, pending) == h = "active" /\ InFlightCount(pending) < MaxInFlight

\* The interval fires: attempts++, then await getCurrentTotal()
Tick ==
  /\ TickGuard(checkInterval, inflight)
  /\ attempts' = attempts + 1
  /\ inflight' = [inflight EXCEPT !["query"] = @ + 1]
  /\ UNCHANGED <<timeoutId, checkInterval, baselinePc, previousTotalPolls, loads,
                 lastLoad, totalPolls, disposedAt, firstExceed, detectAt,
                 baselineRead, attemptsAtClear>>
  /\ UNCHANGED totalAtStart
  /\ UNCHANGED notWatchVars

\* A poll attempt's count query returns and the callback runs up to its next await
QueryResolves ==
  /\ inflight["query"] > 0
  /\ \E v \in GetCurrentTotalOutcomes(totalPolls) :
       LET kind == Branch(v, previousTotalPolls, attempts) IN
         /\ previousTotalPolls' = NextPrevious(v, previousTotalPolls)
         /\ firstExceed' = IF firstExceed = 0 /\ v > previousTotalPolls
                             THEN attempts ELSE firstExceed
         /\ detectAt' = IF detectAt = 0 /\ kind = "detect" THEN attempts ELSE detectAt
         /\ IF kind = "none"
              THEN /\ inflight' = [inflight EXCEPT !["query"] = @ - 1]
                   /\ UNCHANGED <<loads, lastLoad>>
              ELSE /\ inflight' = [inflight EXCEPT !["query"] = @ - 1, ![kind] = @ + 1]
                   /\ loads' = [loads EXCEPT ![kind] = @ + 1]
                   /\ lastLoad' = [kind |-> kind, at |-> attempts]
  /\ UNCHANGED <<timeoutId, checkInterval, baselinePc, attempts, totalPolls,
                 disposedAt, baselineRead, attemptsAtClear>>
  /\ UNCHANGED totalAtStart
  /\ UNCHANGED notWatchVars

\* loadPolls returns to the callback that awaited it
LoadReturns ==
  \E kind \in {"keep", "detect", "timeout"} :
    /\ inflight[kind] > 0
    /\ inflight' = [inflight EXCEPT ![kind] = @ - 1]
    /\ IF kind \in {"detect", "timeout"}
         THEN /\ checkInterval' = ClearInterval(checkInterval)
              /\ attemptsAtClear' = IF attemptsAtClear = -1 THEN attempts
                                    ELSE attemptsAtClear
         ELSE UNCHANGED <<checkInterval, attemptsAtClear>>
    /\ UNCHANGED <<timeoutId, baselinePc, attempts, previousTotalPolls, loads,
                   lastLoad, totalPolls, disposedAt, firstExceed, detectAt,
                   baselineRead>>
  /\ UNCHANGED totalAtStart
  /\ UNCHANGED notWatchVars

\* The effect cleanup: unmount, or a new refreshTrigger / queryAddress
Cleanup ==
  /\ timeoutId # "null"
  /\ disposedAt = "none"
  /\ disposedAt' = WatchPhase
  /\ timeoutId' = IF timeoutId = "pending" THEN "cleared" ELSE timeoutId  \* clearTimeout
  /\ checkInterval' = ClearInterval(checkInterval)
  /\ attemptsAtClear' = IF attemptsAtClear = -1 /\ checkInterval # "null"
                          THEN attempts ELSE attemptsAtClear
  /\ UNCHANGED <<baselinePc, attempts, previousTotalPolls, inflight, loads, lastLoad,
                 totalPolls, firstExceed, detectAt, baselineRead>>
  /\ UNCHANGED totalAtStart
  /\ UNCHANGED notWatchVars

\* A createPoll transaction is applied on the ledger
LedgerCreates ==
  /\ totalPolls < MaxTotal
  /\ totalPolls' = totalPolls + 1
  /\ UNCHANGED <<timeoutId, checkInterval, baselinePc, attempts, previousTotalPolls,
                 inflight, loads, lastLoad, disposedAt, firstExceed, detectAt,
                 baselineRead, attemptsAtClear>>
  /\ UNCHANGED totalAtStart
  /\ UNCHANGED notWatchVars

NextWatch ==
  \/ StartWatch
  \/ SettleFires
  \/ BaselineResolves
  \/ Tick
  \/ QueryResolves
  \/ LoadReturns
  \/ Cleanup
  \/ LedgerCreates

SpecWatch == InitWatch /\ [][NextWatch]_vars

\* ---------------------------------------------------------------------
\* Claims about the confirmation watcher
\* ---------------------------------------------------------------------

WatchStopped == checkInterval = "cleared" /\ disposedAt = "none"

C3_Claim ==
  disposedAt \in {"settle", "baseline"} => LoadCount(loads) = 0

\* C4 as stated: a watch that runs to its end stops polling after at most
\* maxAttempts attempts.
C4_Claim ==
  WatchStopped => attempts <= maxAttempts

\* C17 as stated: once the effect cleanup has run, no settle timeout and no
\* polling interval of that watch is pending, even when the cleanup ran while
\* the baseline query was in flight.
C17_Claim ==
  disposedAt # "none" => (timeoutId # "pending" /\ checkInterval # "active")

\* C18 as stated: when the cleanup ran while the interval was polling, a count
\* query that returns afterwards is discarded: loadPolls is not invoked for it.
C18_Claim ==
  [][(disposedAt = "polling" /\ inflight'["query"] < inflight["query"])
       => loads' = loads]_vars

\* C19 as stated: an attempt never starts before the one before it has
\* finished its count query and dispatched the refresh it triggers.
C19_Claim ==
  inflight["query"] <= 1

\* C20 as stated: the baseline is the aggregate count read when the watch
\* starts, before the settling delay (0 when that read fails).
C20_Claim ==
  baselineRead # -1 => baselineRead \in {totalAtStart, 0}

\* C21 as stated: the attempts counter never exceeds maxAttempts: a poll
\* attempt is started (attempts is incremented) only while attempts is below
\* maxAttempts and no increase has been detected.
C21_Claim ==
  [][attempts' > attempts => (attempts < maxAttempts /\ detectAt = 0)]_vars

\* C22 as stated: while the watch is polling with no increase detected and
\* attempts below maxAttempts, loadPolls has been invoked for exactly the
\* attempts whose number is a multiple of 3 (one keep-fresh refresh per such
\* attempt once every started attempt has evaluated its count), and the
\* interval is still active after these refreshes.
C22_Claim ==
  (/\ checkInterval # "null"
   /\ disposedAt = "none"
   /\ firstExceed = 0
   /\ attempts < maxAttempts
   /\ inflight["query"] = 0)
    => /\ loads = [keep |-> attempts \div 3, detect |-> 0, timeout |-> 0]
       /\ checkInterval = "active"

\* ---------------------------------------------------------------------
\* Local poll store (utils/database) and cache merger (utils/contract-metadata)
\* ---------------------------------------------------------------------

\* `x || d` on a number, a string, an array (an empty array is truthy)
Falsy(x) == x = 0 \/ x = UndefNum
OrNum(x, d) == IF Falsy(x) THEN d ELSE x
OrStr(x, d) == IF x = "" \/ x = UndefStr THEN d ELSE x
OrSeq(x, d) == IF x = UndefSeq THEN d ELSE x

RowFields == {"pollId", "title", "description", "optionNames", "maxOptions", "duration",
              "endsAt", "createdAt", "blockNumber", "blockHash", "transactionHash",
              "chainMetadata", "totalVotes", "isActive", "creator", "lastSynced"}

\* Fields of PollMetadata that ContractPollData also has
RemoteFields == {"title", "description", "maxOptions", "isActive", "totalVotes",
                 "creator", "endsAt", "createdAt"}

\* Fields of PollMetadata that only the local store knows
LocalOnlyFields == {"optionNames", "duration", "blockNumber", "blockHash",
                    "transactionHash", "chainMetadata"}

Zeros(n) == [i \in 1..n |-> 0]

\* `if (!metadata.pollId) throw`, left out
SaveValid_Any(metadata) == TRUE

\* `if (!metadata.pollId) throw new Error('pollId es requerido')`
SaveValid(metadata) == ~Falsy(metadata.pollId)

\* dataToSave of savePollMetadata
DataToSave(metadata, t) ==
  [pollId          |-> metadata.pollId,
   title           |-> OrStr(metadata.title, ""),
   description     |-> OrStr(metadata.description, ""),
   optionNames     |-> OrSeq(metadata.optionNames, << >>),
   maxOptions      |-> OrNum(metadata.maxOptions, 0),
   duration        |-> OrNum(metadata.duration, 0),
   endsAt          |-> OrNum(metadata.endsAt, 0),
   createdAt       |-> OrNum(metadata.createdAt, t),
   blockNumber     |-> metadata.blockNumber,
   blockHash       |-> metadata.blockHash,
   transactionHash |-> metadata.transactionHash,
   chainMetadata   |-> metadata.chainMetadata,
   totalVotes      |-> metadata.totalVotes,
   isActive        |-> metadata.isActive,
   creator         |-> metadata.creator,
   lastSynced      |-> metadata.lastSynced]

\* How a savePollMetadata call can end: the validation throws; the put succeeds;
\* or the database, the transaction or the put request fails
SaveOutcomes(metadata) ==
  IF SaveValid(metadata) THEN {"ok", "failed"} ELSE {"threw"}

\* store.put(dataToSave), keyPath 'pollId'
Put(st, row) == [st EXCEPT ![row.pollId] = row]

\* savePollMetadata(metadata) ending in `outcome`
SavePollMetadata(metadata, outcome) ==
  LET after == IF outcome = "ok" THEN Put(store, DataToSave(metadata, now)) ELSE store IN
    /\ store' = after
    /\ zeroSave' = IF Falsy(metadata.pollId)
                     THEN [outcome |-> outcome, changed |-> after # store]
                     ELSE zeroSave

\* getPollMetadata(pollId): `request.result || null`
GetPollMetadata(st, pollId) ==
  IF pollId \in DOMAIN st /\ st[pollId] # NoRow THEN st[pollId] ELSE Null

\* The tuple get_poll answers for an id
PollTuple(id) ==
  IF ledger[id] = NoPoll
    THEN [exists |-> FALSE, id |-> 0, title |-> "", description |-> "",
          merkleRoot |-> "", maxOptions |-> 0, creator |-> "", isActive |-> "false",
          totalVotes |-> 0, createdAt |-> 0, endsAt |-> 0]
  ELSE [f \in DOMAIN ledger[id] \ {"tallies"} |-> ledger[id][f]]

\* What `await contract.query.getPoll(...)` followed by `output?.toHuman()` can give
PollResponses(id) ==
  {[kind |-> "throws"], [kind |-> "noOutput"], [kind |-> "Err"],
   [kind |-> "Ok", tuple |-> PollTuple(id)]}

\* What `await contract.query.getAllTallies(...)` followed by toHuman() can give
TalliesResponses(id) ==
  {[kind |-> "throws"], [kind |-> "notOk"],
   [kind |-> "Ok", tallies |-> IF ledger[id] = NoPoll THEN << >> ELSE ledger[id].tallies]}

\* voteTallies of getPollMetadataFromContract
VoteTalliesOf(maxOptions, talliesResp) ==
  IF talliesResp.kind = "Ok" THEN talliesResp.tallies
  ELSE IF talliesResp.kind = "throws" THEN Zeros(OrNum(maxOptions, 0))
  ELSE << >>

\* pollData of getPollMetadataFromContract
PollDataOf(t, talliesResp) ==
  [exists      |-> t.exists = TRUE,
   id          |-> OrNum(t.id, 0),
   title       |-> OrStr(t.title, ""),
   description |-> OrStr(t.description, ""),
   merkleRoot  |-> OrStr(t.merkleRoot, ""),
   maxOptions  |-> OrNum(t.maxOptions, 0),
   creator     |-> OrStr(t.creator, ""),
   isActive    |-> IF t.isActive = "true" THEN "true" ELSE "false",
   totalVotes  |-> OrNum(t.totalVotes, 0),
   createdAt   |-> OrNum(t.createdAt, 0),
   endsAt      |-> OrNum(t.endsAt, 0),
   voteTallies |-> VoteTalliesOf(t.maxOptions, talliesResp)]

\* getPollMetadataFromContract answering a not-exists record for the requested
\* id, as PollList.getPoll does, instead of null
getPollMetadataFromContract_NotExistsRecord(pollId, pollResp, talliesResp) ==
  IF pollResp.kind # "Ok" \/ ~pollResp.tuple.exists
    THEN [PollDataOf(PollTuple(pollId), talliesResp) EXCEPT !.id = pollId]
    ELSE PollDataOf(pollResp.tuple, talliesResp)

\* getPollMetadataFromContract(contract, pollId, queryAddress)
getPollMetadataFromContract(pollId, pollResp, talliesResp) ==
  IF pollResp.kind # "Ok" THEN Null           \* catch, `!output || !output.Ok`
  ELSE IF ~pollResp.tuple.exists THEN Null    \* `if (!exists) return null`
  ELSE PollDataOf(pollResp.tuple, talliesResp)

\* `localMetadata?.field`, with the local row left out of the merge
LocalField_Ignored(localMetadata, f, undef) == undef

\* `localMetadata?.field`
LocalField(localMetadata, f, undef) ==
  IF localMetadata = Null THEN undef ELSE localMetadata[f]

\* syncedMetadata of syncPollMetadata
SyncedMetadata(contractData, localMetadata, t) ==
  [pollId          |-> contractData.id,
   title           |-> contractData.title,
   description     |-> contractData.description,
   maxOptions      |-> contractData.maxOptions,
   isActive        |-> contractData.isActive,
   totalVotes      |-> contractData.totalVotes,
   creator         |-> contractData.creator,
   endsAt          |-> contractData.endsAt,
   createdAt       |-> contractData.createdAt,
   optionNames     |-> OrSeq(LocalField(localMetadata, "optionNames", UndefSeq), << >>),
   duration        |-> OrNum(LocalField(localMetadata, "duration", UndefNum), 0),
   blockNumber     |-> LocalField(localMetadata, "blockNumber", UndefNum),
   blockHash       |-> LocalField(localMetadata, "blockHash", UndefStr),
   transactionHash |-> LocalField(localMetadata, "transactionHash", UndefStr),
   chainMetadata   |-> LocalField(localMetadata, "chainMetadata", UndefStr),
   lastSynced      |-> t]

\* What the create-poll form and the inclusion status can hold when the
\* inclusion handler persists: with block data, and without (api is null)
Forms ==
  {[title |-> "T1", description |-> "D1", optionNames |-> <<"A", "B">>,
    maxOptions |-> 2, duration |-> 60, blockNumber |-> 7, blockHash |-> "0xb7",
    transactionHash |-> "0xt7", chainMetadata |-> "chain-1"]}

\* The poll the contract can hold under an id; isActive is "true" or "false"
RemotePolls(id) ==
  {[exists |-> TRUE, id |-> id, title |-> "RT1", description |-> "",
    merkleRoot |-> "0x01", maxOptions |-> 3, creator |-> "5Alice",
    isActive |-> "true", totalVotes |-> 7, createdAt |-> 500, endsAt |-> 900,
    tallies |-> <<3, 4, 0>>]}

\* The metadata the inclusion handler of CreatePoll passes to savePollMetadata
CreateMetadata(pollId, form, createdAt) ==
  [pollId          |-> pollId,
   title           |-> form.title,
   description     |-> form.description,
   optionNames     |-> SubSeq(form.optionNames, 1, form.maxOptions),
   maxOptions      |-> form.maxOptions,
   duration        |-> form.duration,
   endsAt          |-> IF form.duration > 0 THEN createdAt + form.duration * 1000 ELSE 0,
   createdAt       |-> createdAt,
   blockNumber     |-> OrNum(form.blockNumber, UndefNum),
   blockHash       |-> OrStr(form.blockHash, UndefStr),
   transactionHash |-> OrStr(form.transactionHash, UndefStr),
   chainMetadata   |-> OrStr(form.chainMetadata, UndefStr),
   totalVotes      |-> UndefNum,
   isActive        |-> UndefStr,
   creator         |-> UndefStr,
   lastSynced      |-> UndefNum]

\* A record written before title, description and optionNames were stored
LegacyMetadata(pollId) ==
  [f \in RowFields |->
     IF f = "pollId" THEN pollId
     ELSE IF f = "optionNames" THEN UndefSeq
     ELSE IF f \in {"maxOptions", "duration", "endsAt", "createdAt", "blockNumber",
                    "totalVotes", "lastSynced"} THEN UndefNum
     ELSE UndefStr]

\* `{ ...existing, ...updates, pollId }` of updatePollMetadata
Updated(existing, updates, pollId) ==
  [f \in RowFields |->
     IF f = "pollId" THEN pollId
     ELSE IF f \in DOMAIN updates THEN updates[f]
     ELSE existing[f]]

InitMerge ==
  /\ IdleMerge
  /\ ledger \in {l \in [1..MaxKey -> {NoPoll} \cup UNION {RemotePolls(k) : k \in 1..MaxId}] :
                   \A k \in 1..MaxKey : l[k] = NoPoll \/ l[k].id = k}
  /\ IdleWatch
  /\ totalPolls = 0
  /\ IdleDecode
  /\ IdleBatch
  /\ IdleCreate

syncFrame == <<syncPc, syncId, syncResp, syncContract, syncLocal, syncMeta, syncResult,
               syncPuts, syncSaveFailed>>

\* Date.now() advances
ClockTick ==
  /\ now < MaxNow
  /\ now' = now + 1
  /\ UNCHANGED <<store, ledger, syncFrame, zeroSave>>
  /\ UNCHANGED notMergeVars

\* CreatePoll, inclusion handler: `if (pollId > 0) { try { await savePollMetadata(...) } catch {} }`
CreatePersist ==
  \E pollId \in 0..MaxId : \E form \in Forms :
    /\ IF pollId > 0
         THEN \E outcome \in SaveOutcomes(CreateMetadata(pollId, form, now)) :
                SavePollMetadata(CreateMetadata(pollId, form, now), outcome)
         ELSE UNCHANGED <<store, zeroSave>>
    /\ UNCHANGED <<ledger, now, syncFrame>>
    /\ UNCHANGED notMergeVars

\* A direct call of savePollMetadata, with a record that holds a pollId only
SaveCall ==
  \E pollId \in 0..MaxId :
    \E metadata \in {LegacyMetadata(pollId)} :
      \E outcome \in SaveOutcomes(metadata) :
        /\ SavePollMetadata(metadata, outcome)
        /\ UNCHANGED <<ledger, now, syncFrame>>
        /\ UNCHANGED notMergeVars

\* updatePollMetadata(pollId, updates): the row is read (a missing row throws),
\* overlaid with updates and saved
UpdatePollMetadata ==
  \E pollId \in 0..MaxId : \E updates \in {[pollId |-> 0, optionNames |-> <<"P", "Q">>]} :
    LET existing == GetPollMetadata(store, pollId) IN
      /\ existing # Null
      /\ \E outcome \in SaveOutcomes(Updated(existing, updates, pollId)) :
           SavePollMetadata(Updated(existing, updates, pollId), outcome)
      /\ UNCHANGED <<ledger, now, syncFrame>>
      /\ UNCHANGED notMergeVars

storeFrame == <<ledger, now>>

\* syncPollMetadata(contract, pollId, queryAddress) is called
SyncStart ==
  /\ syncPc \in {"idle", "done"}
  /\ \E pollId \in 1..MaxId : syncId' = pollId
  /\ syncPc' = "fetch"
  /\ syncResp' = "none"
  /\ syncContract' = Null
  /\ syncLocal' = Null
  /\ syncMeta' = Null
  /\ syncResult' = Null
  /\ syncPuts' = 0
  /\ syncSaveFailed' = FALSE
  /\ UNCHANGED <<store, zeroSave, storeFrame>>
  /\ UNCHANGED notMergeVars

\* `if (!contractData) return null`
SyncGivesUp(contractData) == contractData = Null

\* syncPollMetadata: `await getPollMetadataFromContract(...)` returns
SyncFetch ==
  /\ syncPc = "fetch"
  /\ \E pollResp \in PollResponses(syncId) : \E talliesResp \in TalliesResponses(syncId) :
       LET contractData == getPollMetadataFromContract(syncId, pollResp, talliesResp) IN
         /\ syncResp' = IF pollResp.kind = "Ok" /\ pollResp.tuple.exists
                          THEN "exists"
                          ELSE IF pollResp.kind = "Ok" THEN "missing" ELSE "failed"
         /\ syncContract' = contractData
         /\ syncPc' = IF SyncGivesUp(contractData) THEN "done" ELSE "read"
  /\ UNCHANGED <<syncId, syncLocal, syncMeta, syncResult, syncPuts, syncSaveFailed>>
  /\ UNCHANGED <<store, zeroSave, storeFrame>>
  /\ UNCHANGED notMergeVars

\* syncPollMetadata: `await getPollMetadata(pollId)` returns or rejects, then
\* syncedMetadata is built
SyncRead ==
  /\ syncPc = "read"
  /\ \E outcome \in {"ok", "rejects"} :
       IF outcome = "ok"
         THEN /\ syncLocal' = GetPollMetadata(store, syncId)
              /\ syncMeta' = SyncedMetadata(syncContract, GetPollMetadata(store, syncId), now)
              /\ syncPc' = "save"
         ELSE /\ syncPc' = "done"                \* catch: return null
              /\ UNCHANGED <<syncLocal, syncMeta>>
  /\ UNCHANGED <<syncId, syncResp, syncContract, syncResult, syncPuts, syncSaveFailed>>
  /\ UNCHANGED <<store, zeroSave, storeFrame>>
  /\ UNCHANGED notMergeVars

\* What syncPollMetadata returns once `await savePollMetadata(syncedMetadata)` ended:
\* a rejection lands in the catch of the whole function
SyncReturn(syncedMetadata, outcome) ==
  IF outcome = "ok" THEN syncedMetadata ELSE Null

\* syncPollMetadata: `await savePollMetadata(syncedMetadata)` ends
SyncSave ==
  /\ syncPc = "save"
  /\ \E outcome \in SaveOutcomes(syncMeta) :
       /\ SavePollMetadata(syncMeta, outcome)
       /\ syncPuts' = IF outcome = "threw" THEN syncPuts ELSE syncPuts + 1
       /\ syncSaveFailed' = (outcome # "ok")
       /\ syncResult' = SyncReturn(syncMeta, outcome)
  /\ syncPc' = "done"
  /\ UNCHANGED <<syncId, syncResp, syncContract, syncLocal, syncMeta>>
  /\ UNCHANGED storeFrame
  /\ UNCHANGED notMergeVars

NextMerge ==
  \/ ClockTick
  \/ CreatePersist
  \/ SaveCall
  \/ UpdatePollMetadata
  \/ SyncStart
  \/ SyncFetch
  \/ SyncRead
  \/ SyncSave

SpecMerge == InitMerge /\ [][NextMerge]_vars

\* ---------------------------------------------------------------------
\* Properties of the cache merger and of the store
\* ---------------------------------------------------------------------

\* syncPollMetadata returned after its remote read gave a record and its local
\* read gave `localMetadata`
SyncMerged == syncPc = "done" /\ syncResp = "exists" /\ syncMeta # Null

\* The fields of ContractPollData a PollMetadata record repeats, as `merged` holds them
RemoteWins(merged, contractData) ==
  \A f \in RemoteFields : merged[f] = contractData[f]

\* The fields only the store knows, as `merged` holds them
LocalKept(merged, localMetadata) ==
  \A f \in LocalOnlyFields : merged[f] = localMetadata[f]

\* C5 as stated: when the write-back of syncPollMetadata fails, the merged
\* record is still returned to the caller, not null.
C5_Claim ==
  (syncPc = "done" /\ syncSaveFailed) => (syncResult # Null /\ syncResult = syncMeta)

\* C6: syncPollMetadata returns null whenever the remote read fails or the
\* ledger reports that the poll does not exist, whatever the store holds for
\* the id, and it has then made no write to the store.
C6_RemoteAbsentGivesNull ==
  (syncPc = "done" /\ syncResp \in {"failed", "missing"}) =>
     /\ syncResult = Null
     /\ syncPuts = 0
     /\ syncMeta = Null

\* A sync of an id the ledger does not hold ended while the store had a row
\* for that id
C6_Witness ==
  /\ syncPc = "done"
  /\ syncResp = "missing"
  /\ store[syncId] # NoRow
  /\ store[syncId].optionNames = <<"A", "B">>
  /\ syncResult = Null

\* C7 as stated: with a remote record and no row in the store, syncPollMetadata
\* returns a merged record whose optionNames is empty and whose remote-sourced
\* fields equal the remote values.
C7_Claim ==
  (SyncMerged /\ syncLocal = Null) =>
     IF syncResult = Null THEN FALSE
     ELSE /\ syncResult.optionNames = << >>
          /\ RemoteWins(syncResult, syncContract)

\* C8 as stated: with a row in the store, saved earlier, and a remote record
\* that differs from it, syncPollMetadata returns a record whose remote-sourced
\* fields equal the remote values and whose local-only fields equal the row's.
C8_Claim ==
  (SyncMerged /\ syncLocal # Null) =>
     IF syncResult = Null THEN FALSE
     ELSE /\ RemoteWins(syncResult, syncContract)
          /\ LocalKept(syncResult, syncLocal)

\* C9: the store never holds a row whose pollId is 0, and a savePollMetadata
\* call with pollId 0 fails and leaves the store unchanged.
C9_NoZeroRow ==
  /\ store[0] = NoRow
  /\ \A k \in 1..MaxId : store[k] # NoRow => store[k].pollId = k
  /\ zeroSave.outcome \in {"none", "threw"}
  /\ ~zeroSave.changed

\* savePollMetadata was called with pollId 0 while the store held a row written
\* by a sync
C9_Witness ==
  /\ zeroSave.outcome = "threw"
  /\ \E k \in 1..MaxId : store[k] # NoRow /\ store[k].lastSynced # UndefNum
  /\ store[0] = NoRow

\* ---------------------------------------------------------------------
\* getTotalPolls of PollList: decoding the answer of the getTotalPolls query
\* ---------------------------------------------------------------------

\* JavaScript values: a tag t, the value v of a number, the characters s of a
\* string, the properties of an object in enumeration order.  A method is a
\* property that holds a function; a function holds what a call of it returns.
Value(t, v, s, props) == [t |-> t, v |-> v, s |-> s, props |-> props]
Num(n) == Value("number", n, << >>, << >>)
NaN == Value("NaN", 0, << >>, << >>)
Str(s) == Value("string", 0, s, << >>)
Undefined == Value("undefined", 0, << >>, << >>)
NullValue == Value("null", 0, << >>, << >>)
Thrown == Value("throws", 0, << >>, << >>)      \* an exception in place of a value
P(key, val) == [key |-> key, val |-> val]
Fn(returns) == Value("function", 0, << >>, <<P("returns", returns)>>)
Obj(props) == Value("object", 0, << >>, props)

\* An array: its elements are the properties "0", "1", ...
Arr(items) == Value("array", 0, << >>, [i \in DOMAIN items |-> P(<<"0", "1", "2", "3">>[i], items[i])])

\* Array.isArray(x), x.length and x[i] (i from 0) of an array
IsArray(x) == x.t = "array"
Length(x) == Len(x.props)
At(x, i) == IF i < Len(x.props) THEN x.props[i + 1].val ELSE Undefined

IsThrown(x) == x.t = "throws"

\* typeof x
TypeOf(x) ==
  IF x.t \in {"null", "array"} THEN "object" ELSE IF x.t = "NaN" THEN "number" ELSE x.t

\* x in a condition
Truthy(x) ==
  CASE x.t = "number" -> x.v # 0
    [] x.t = "string" -> x.s # << >>
    [] x.t \in {"object", "function", "array"} -> TRUE
    [] OTHER -> FALSE

\* `key in x`, for an x that is an object and not null
In(key, x) == \E i \in DOMAIN x.props : x.props[i].key = key

\* x[key], for a key that is in x
Get(x, key) == x.props[CHOOSE i \in DOMAIN x.props : x.props[i].key = key].val

\* x[key](): calling what is not a function throws
Call(x, key) ==
  IF Get(x, key).t = "function" THEN Get(Get(x, key), "returns") ELSE Thrown

\* The digits of a numeral in base 10 (the first ten) and in base 16
Digits == <<"0", "1", "2", "3", "4", "5", "6", "7", "8", "9", "a", "b", "c", "d", "e", "f">>

IsDigit(c, base) == \E i \in 1..base : Digits[i] = c

DigitValue(c) == (CHOOSE i \in DOMAIN Digits : Digits[i] = c) - 1

\* The value of a numeral made of digits of the base
RECURSIVE NumeralValue(_, _)
NumeralValue(s, base) ==
  IF s = << >> THEN 0
  ELSE NumeralValue(SubSeq(s, 1, Len(s) - 1), base) * base + DigitValue(s[Len(s)])

\* Whether s begins with "0x"
HasHexPrefix(s) == Len(s) >= 2 /\ s[1] = "0" /\ s[2] = "x"

\* Number(s) of a string: the empty string is 0, a decimal numeral its value,
\* "0x" followed by hexadecimal digits their value, anything else NaN
NumberOfString(s) ==
  IF \A i \in DOMAIN s : IsDigit(s[i], 10) THEN Num(NumeralValue(s, 10))
  ELSE IF HasHexPrefix(s) /\ Len(s) > 2 /\ \A i \in 3..Len(s) : IsDigit(s[i], 16)
    THEN Num(NumeralValue(SubSeq(s, 3, Len(s)), 16))
  ELSE NaN

\* String(n) of a count
RECURSIVE DecimalString(_)
DecimalString(n) ==
  IF n < 10 THEN <<Digits[n + 1]>>
  ELSE DecimalString(n \div 10) \o <<Digits[(n % 10) + 1]>>

\* `x || 0`
OrZero(x) == IF IsThrown(x) THEN x ELSE IF Truthy(x) THEN x ELSE Num(0)

\* `total === 0`, `numValue > 0`
IsZero(x) == x.t = "number" /\ x.v = 0
Positive(x) == x.t = "number" /\ x.v > 0

\* The value under the Ok / ok key of the human output, strings not read
HumanKeyTotal_NoString(okValue, total) ==
  IF TypeOf(okValue) = "number" THEN okValue
  ELSE IF Truthy(okValue) /\ TypeOf(okValue) = "object" /\ In("toNumber", okValue)
    THEN OrZero(Call(okValue, "toNumber"))
  ELSE total

\* The value under the Ok / ok key of the human output
HumanKeyTotal(okValue, total) ==
  IF TypeOf(okValue) = "string" THEN OrZero(NumberOfString(okValue.s))
  ELSE IF TypeOf(okValue) = "number" THEN okValue
  ELSE IF Truthy(okValue) /\ TypeOf(okValue) = "object" /\ In("toNumber", okValue)
    THEN OrZero(Call(okValue, "toNumber"))
  ELSE total

\* `for (const val of values)`: the first number or numeric string
RECURSIVE ScanValues(_, _)
ScanValues(values, total) ==
  IF values = << >> THEN total
  ELSE IF TypeOf(Head(values)) = "number" THEN Head(values)
  ELSE IF TypeOf(Head(values)) = "string" /\ NumberOfString(Head(values).s).t # "NaN"
    THEN NumberOfString(Head(values).s)
  ELSE ScanValues(Tail(values), total)

\* Priority 1, from humanOutput on.  Inside the object branch the test
\* `typeof humanOutput === 'number'` is never true.
HumanParsed(humanOutput, total) ==
  IF Truthy(humanOutput) /\ TypeOf(humanOutput) = "object"
    THEN IF In("Ok", humanOutput) THEN HumanKeyTotal(Get(humanOutput, "Ok"), total)
         ELSE IF In("ok", humanOutput) THEN HumanKeyTotal(Get(humanOutput, "ok"), total)
         ELSE ScanValues([i \in DOMAIN humanOutput.props |-> humanOutput.props[i].val], total)
  ELSE IF TypeOf(humanOutput) = "number" THEN humanOutput
  ELSE total

\* Priority 1: total after the try / catch around output.toHuman()
Priority1(output, total) ==
  IF Truthy(output) /\ TypeOf(output) = "object" /\ In("toHuman", output)
    THEN IF IsThrown(Call(output, "toHuman")) THEN total
         ELSE IF IsThrown(HumanParsed(Call(output, "toHuman"), total)) THEN total
         ELSE HumanParsed(Call(output, "toHuman"), total)
  ELSE total

\* The value under the ok / Ok key of the raw output; `'toNumber' in null` throws
RawKeyTotal(okValue, total) ==
  IF TypeOf(okValue) = "number" THEN okValue
  ELSE IF TypeOf(okValue) = "object"
    THEN IF okValue.t = "null" THEN Thrown
         ELSE IF In("toNumber", okValue) THEN OrZero(Call(okValue, "toNumber"))
         ELSE total
  ELSE total

\* Priority 2: the raw output, tried only while total is 0
Priority2(output, total) ==
  IF IsZero(total) /\ Truthy(output)
    THEN IF TypeOf(output) = "object" /\ In("ok", output)
           THEN RawKeyTotal(Get(output, "ok"), total)
         ELSE IF TypeOf(output) = "object" /\ In("Ok", output)
           THEN RawKeyTotal(Get(output, "Ok"), total)
         ELSE IF TypeOf(output) = "object" /\ In("toNumber", output)
           THEN IF IsThrown(Call(output, "toNumber")) THEN Thrown
                ELSE IF Positive(Call(output, "toNumber")) THEN Call(output, "toNumber")
                ELSE total
         ELSE IF TypeOf(output) = "number" THEN output
         ELSE total
  ELSE total

\* `let output = result.output`, else result.result?.output
OutputOf(result) ==
  IF ~Truthy(result.output) /\ Truthy(result.nested) THEN result.nested
  ELSE result.output

\* What `await contract.query.getTotalPolls(...)` gives: a rejection, or a
\* result with `output` and `result?.output`
QueryRejects == [kind |-> "rejects", output |-> Undefined, nested |-> Undefined]
Resolved(output, nested) == [kind |-> "resolved", output |-> output, nested |-> nested]

\* getTotalPolls(): 0 without a query address, 0 when the query or the decoding
\* throws, the decoded total when it is positive, else 0
getTotalPolls(queryAddress, result) ==
  IF ~queryAddress THEN 0
  ELSE IF result.kind = "rejects" THEN 0
  ELSE LET total == Priority2(OutputOf(result), Priority1(OutputOf(result), Num(0))) IN
         IF IsThrown(total) THEN 0
         ELSE IF Positive(total) THEN total.v
         ELSE 0

\* An object whose toNumber() returns n, an object whose toHuman() returns x
Conv(n) == Obj(<<P("toNumber", Fn(Num(n)))>>)
Human(x) == Obj(<<P("toHuman", Fn(x))>>)

\* The encodings of a successful count that getTotalPolls reads
Encodings ==
  {"humanOkString", "humanOkNumber", "humanOkConv",
   "humanokString", "humanokNumber", "humanokConv",
   "humanNumber", "humanScanNumber", "humanScanString",
   "rawokNumber", "rawokConv", "rawOkNumber", "rawOkConv",
   "rawConv", "rawNumber"}

\* The output that carries the count n in an encoding
Encode(encoding, n) ==
  CASE encoding = "humanOkString" -> Human(Obj(<<P("Ok", Str(DecimalString(n)))>>))
    [] encoding = "humanOkNumber" -> Human(Obj(<<P("Ok", Num(n))>>))
    [] encoding = "humanOkConv" -> Human(Obj(<<P("Ok", Conv(n))>>))
    [] encoding = "humanokString" -> Human(Obj(<<P("ok", Str(DecimalString(n)))>>))
    [] encoding = "humanokNumber" -> Human(Obj(<<P("ok", Num(n))>>))
    [] encoding = "humanokConv" -> Human(Obj(<<P("ok", Conv(n))>>))
    [] encoding = "humanNumber" -> Human(Num(n))
    [] encoding = "humanScanNumber" ->
         Human(Obj(<<P("type", Str(<<"u", "3", "2">>)), P("value", Num(n))>>))
    [] encoding = "humanScanString" ->
         Human(Obj(<<P("flags", NullValue), P("value", Str(DecimalString(n)))>>))
    [] encoding = "rawokNumber" -> Obj(<<P("ok", Num(n))>>)
    [] encoding = "rawokConv" -> Obj(<<P("ok", Conv(n))>>)
    [] encoding = "rawOkNumber" -> Obj(<<P("Ok", Num(n))>>)
    [] encoding = "rawOkConv" -> Obj(<<P("Ok", Conv(n))>>)
    [] encoding = "rawConv" -> Conv(n)
    [] encoding = "rawNumber" -> Num(n)

\* Outputs that carry n in no encoding getTotalPolls reads
Unread(n) ==
  {Undefined,
   Obj(<<P("ok", Str(DecimalString(n)))>>),
   Obj(<<P("Ok", NullValue)>>),
   Human(Obj(<<P("Err", Str(<<"x">>))>>)),
   Human(Str(DecimalString(n))),
   Obj(<<P("toHuman", Fn(Thrown)), P("toNumber", Fn(Num(n)))>>),
   Obj(<<P("toHuman", Fn(Str(DecimalString(n)))), P("toNumber", Fn(Num(n)))>>)}

\* The calls of getTotalPolls: the query address, the query's result, and the
\* encoding and count the result carries; among them outputs that answer to
\* toHuman() with an Ok / ok key and have a raw shape of their own as well
Queries ==
  {[queryAddress |-> a, result |-> Resolved(Encode(e, n), Undefined),
    encoding |-> e, n |-> n] :
     a \in BOOLEAN, e \in Encodings, n \in 0..MaxCount}
  \cup {[queryAddress |-> TRUE, result |-> Resolved(Undefined, Encode(e, n)),
         encoding |-> e, n |-> n] : e \in Encodings, n \in 0..MaxCount}
  \cup {[queryAddress |-> TRUE, result |-> Resolved(o, Undefined),
         encoding |-> "none", n |-> 0] :
            o \in UNION {Unread(n) : n \in 0..MaxCount}}
  \cup {[queryAddress |-> TRUE,
         result |-> Resolved(Obj(<<P("toHuman", Fn(Obj(<<P(key, okValue)>>))), raw>>),
                             Undefined),
         encoding |-> "none", n |-> 0] :
            key \in {"Ok", "ok"},
            okValue \in {Num(0), Str(DecimalString(0)), Num(MaxCount)},
            raw \in {P("toNumber", Fn(Num(MaxCount - 1))), P("ok", Num(MaxCount - 1))}}
  \cup {[queryAddress |-> TRUE, result |-> QueryRejects, encoding |-> "none", n |-> 0]}

InitDecode ==
  /\ IdleDecode
  /\ IdleBatch
  /\ IdleCreate
  /\ IdleWatch
  /\ totalPolls = 0
  /\ IdleMerge
  /\ ledger = [k \in 1..MaxKey |-> NoPoll]

\* `await contract.query.getTotalPolls(queryAddress, ...)` is answered
QueryAnswered ==
  /\ \/ queryResult = Null
     \/ decodedTotal # -1
  /\ queryResult' \in Queries
  /\ decodedTotal' = -1
  /\ UNCHANGED notDecodeVars

\* getTotalPolls returns
TotalReturned ==
  /\ queryResult # Null
  /\ decodedTotal = -1
  /\ decodedTotal' = getTotalPolls(queryResult.queryAddress, queryResult.result)
  /\ UNCHANGED queryResult
  /\ UNCHANGED notDecodeVars

NextDecode ==
  \/ QueryAnswered
  \/ TotalReturned

SpecDecode == InitDecode /\ [][NextDecode]_vars

\* C10: for every count n and every encoding of a successful count that
\* getTotalPolls reads, the call returns n, whichever encoding carries it and
\* whether the result holds it in output or in result.output.
C10_EncodingIndependent ==
  (decodedTotal # -1 /\ queryResult.queryAddress /\ queryResult.encoding \in Encodings)
     => decodedTotal = queryResult.n

\* A two-digit count carried as a string under the Ok key of the human output
\* was decoded
C10_Witness ==
  /\ decodedTotal = 12
  /\ queryResult # Null
  /\ queryResult.encoding = "humanOkString"
  /\ queryResult.n = 12

\* C27 as stated: when the human-readable form of the output carries an Ok /
\* ok key with a numeric value v, a number or a numeric string, 0 included,
\* getTotalPolls returns v whatever the raw shapes of the output would yield.
C27_Claim ==
  (decodedTotal # -1 /\ queryResult.queryAddress /\ queryResult.result.kind # "rejects") =>
    LET output == OutputOf(queryResult.result)
        humanOutput == IF TypeOf(output) = "object" /\ Truthy(output) /\ In("toHuman", output)
                         THEN Call(output, "toHuman") ELSE Undefined
        okValue == IF TypeOf(humanOutput) = "object" /\ Truthy(humanOutput)
                     THEN IF In("Ok", humanOutput) THEN Get(humanOutput, "Ok")
                          ELSE IF In("ok", humanOutput) THEN Get(humanOutput, "ok")
                          ELSE Undefined
                     ELSE Undefined
    IN /\ TypeOf(okValue) = "number" => decodedTotal = okValue.v
       /\ (TypeOf(okValue) = "string" /\ NumberOfString(okValue.s).t = "number")
            => decodedTotal = NumberOfString(okValue.s).v

\* Results that are an explicit failure or a shape getTotalPolls does not read
FailedResults ==
  {QueryRejects,
   Resolved(Undefined, Undefined),
   Resolved(Human(Obj(<<P("Err", Str(<<"x">>))>>)), Undefined),
   Resolved(Obj(<<P("Ok", NullValue)>>), Undefined)}

\* What getTotalPolls returns for a successful count in some encoding
SuccessfulTotals ==
  {getTotalPolls(TRUE, Resolved(Encode(e, n), Undefined)) :
     e \in Encodings, n \in 0..MaxCount}

\* C11 as stated: for a failed query, an explicit failure or an unread shape
\* getTotalPolls returns an outcome the caller can tell apart from every
\* successful count, a count of 0 included.
C11_Claim ==
  (decodedTotal # -1 /\ queryResult.queryAddress /\ queryResult.result \in FailedResults)
     => decodedTotal \notin SuccessfulTotals

\* ---------------------------------------------------------------------
\* syncAllPollsMetadata: the batch merge of every poll of the contract
\* ---------------------------------------------------------------------

\* Number(x): a string by its numeral, null is 0, an object by its toString()
\* when it has one that returns a string, anything else NaN
ToNumber(x) ==
  CASE x.t \in {"number", "NaN", "throws"} -> x
    [] x.t = "string" -> NumberOfString(x.s)
    [] x.t = "null" -> Num(0)
    [] x.t = "object" ->
         IF In("toString", x) /\ Call(x, "toString").t = "string"
           THEN NumberOfString(Call(x, "toString").s)
           ELSE NaN
    [] OTHER -> NaN

\* The value under the Ok / ok key of the human output
SyncHumanKeyTotal(okValue) ==
  IF TypeOf(okValue) = "string" THEN OrZero(NumberOfString(okValue.s))
  ELSE IF TypeOf(okValue) = "number" THEN okValue
  ELSE Num(0)

\* PRIORIDAD 1: totalPolls after the try / catch around output.toHuman()
SyncPriority1(output) ==
  IF Truthy(output) /\ TypeOf(output) = "object" /\ In("toHuman", output)
    THEN LET humanOutput == Call(output, "toHuman") IN
           IF IsThrown(humanOutput) THEN Num(0)
           ELSE IF Truthy(humanOutput) /\ TypeOf(humanOutput) = "object"
             THEN IF In("Ok", humanOutput) THEN SyncHumanKeyTotal(Get(humanOutput, "Ok"))
                  ELSE IF In("ok", humanOutput) THEN SyncHumanKeyTotal(Get(humanOutput, "ok"))
                  ELSE Num(0)
           ELSE Num(0)
  ELSE Num(0)

\* PRIORIDAD 2: the raw output, tried only while totalPolls is 0; it is outside
\* the inner try, so `'toNumber' in null` and a throwing toNumber() leave the
\* function through its outer catch
SyncPriority2(output, total) ==
  IF IsZero(total) /\ Truthy(output)
    THEN IF TypeOf(output) = "object" /\ In("ok", output)
           THEN IF TypeOf(Get(output, "ok")) = "number" THEN Get(output, "ok")
                ELSE OrZero(ToNumber(Get(output, "ok")))
         ELSE IF TypeOf(output) = "object" /\ In("Ok", output)
           THEN LET okValue == Get(output, "Ok") IN
                  IF TypeOf(okValue) = "object"
                    THEN IF okValue.t = "null" THEN Thrown
                         ELSE IF In("toNumber", okValue) THEN OrZero(Call(okValue, "toNumber"))
                         ELSE OrZero(ToNumber(okValue))
                    ELSE OrZero(ToNumber(okValue))
         ELSE IF TypeOf(output) = "object" /\ In("toNumber", output)
           THEN IF IsThrown(Call(output, "toNumber")) THEN Thrown
                ELSE IF Positive(Call(output, "toNumber")) THEN Call(output, "toNumber")
                ELSE total
         ELSE total
  ELSE total

\* `if (metadata) syncedPolls.push(metadata)`, pushing in front
Push_Front(list, metadata) ==
  IF metadata = Null THEN list ELSE <<metadata.pollId>> \o list

\* `if (metadata) syncedPolls.push(metadata)`
Push(list, metadata) ==
  IF metadata = Null THEN list ELSE Append(list, metadata.pollId)

InitBatch ==
  /\ IdleBatch
  /\ IdleMerge
  /\ \E n \in 0..MaxBatch :
       ledger = [k \in 1..MaxKey |->
                   IF k <= n THEN CHOOSE r \in RemotePolls(k) : TRUE ELSE NoPoll]
  /\ IdleWatch
  /\ totalPolls = 0
  /\ IdleDecode
  /\ IdleCreate

\* syncAllPollsMetadata(contract, queryAddress) is called and gets its address:
\* without one it throws into its own catch
BatchStart ==
  /\ batchPc \in {"idle", "done"}
  /\ \E address \in BOOLEAN :
       /\ batchPc' = IF address THEN "count" ELSE "done"
       /\ batchReturn' = IF address THEN "none" ELSE "empty"
  /\ batchCount' = -1
  /\ batchI' = 0
  /\ syncedPolls' = << >>
  /\ batchMerged' = {}
  /\ UNCHANGED <<store, zeroSave, <<ledger, now, syncFrame>>>>
  /\ UNCHANGED notBatchVars

\* `await contract.query.getTotalPolls(...)` ends and totalPolls is decoded
BatchCount ==
  /\ batchPc = "count"
  /\ \E result \in {Resolved(Encode(e, Cardinality({k \in DOMAIN ledger : ledger[k] # NoPoll})),
                               Undefined) : e \in Encodings} \cup FailedResults :
       LET total == IF result.kind = "rejects" THEN Thrown
                    ELSE SyncPriority2(result.output, SyncPriority1(result.output)) IN
         IF IsThrown(total)
           THEN /\ batchPc' = "done"
                /\ batchReturn' = "empty"
                /\ UNCHANGED <<batchCount, batchI>>
           ELSE /\ batchPc' = "loop"
                /\ batchCount' = IF total.t = "number" THEN total.v ELSE 0  \* `i <= NaN`
                /\ batchI' = 1
                /\ UNCHANGED batchReturn
  /\ UNCHANGED <<syncedPolls, batchMerged>>
  /\ UNCHANGED <<store, zeroSave, <<ledger, now, syncFrame>>>>
  /\ UNCHANGED notBatchVars

\* One turn of the loop: syncPollMetadata(contract, i, address) from its call
\* to its return, then the push
BatchMerge ==
  /\ batchPc = "loop"
  /\ batchI <= batchCount
  /\ \E pollResp \in PollResponses(batchI) : \E talliesResp \in TalliesResponses(batchI) :
     \E read \in {"ok", "rejects"} :
       LET contractData == getPollMetadataFromContract(batchI, pollResp, talliesResp)
           saves == ~SyncGivesUp(contractData) /\ read = "ok"
           syncedMetadata == SyncedMetadata(contractData, GetPollMetadata(store, batchI), now)
       IN
         IF saves
           THEN \E outcome \in SaveOutcomes(syncedMetadata) :
                  /\ SavePollMetadata(syncedMetadata, outcome)
                  /\ syncedPolls' = Push(syncedPolls, SyncReturn(syncedMetadata, outcome))
                  /\ batchMerged' = IF SyncReturn(syncedMetadata, outcome) = Null
                                      THEN batchMerged ELSE batchMerged \cup {batchI}
           ELSE /\ UNCHANGED <<store, zeroSave, syncedPolls, batchMerged>>
  /\ batchI' = batchI + 1
  /\ UNCHANGED <<batchPc, batchCount, batchReturn>>
  /\ UNCHANGED <<ledger, now, syncFrame>>
  /\ UNCHANGED notBatchVars

\* The loop ends: `return syncedPolls`
BatchReturn ==
  /\ batchPc = "loop"
  /\ batchI > batchCount
  /\ batchPc' = "done"
  /\ batchReturn' = "list"
  /\ UNCHANGED <<batchCount, batchI, syncedPolls, batchMerged>>
  /\ UNCHANGED <<store, zeroSave, <<ledger, now, syncFrame>>>>
  /\ UNCHANGED notBatchVars

\* Date.now() advances between two steps of the batch
BatchClock ==
  /\ now < MaxNow
  /\ now' = now + 1
  /\ UNCHANGED <<store, ledger, syncFrame, zeroSave>>
  /\ UNCHANGED batchVars
  /\ UNCHANGED notBatchVars

NextBatch ==
  \/ BatchStart
  \/ BatchCount
  \/ BatchMerge
  \/ BatchReturn
  \/ BatchClock

SpecBatch == InitBatch /\ [][NextBatch]_vars

\* The ids of a set in ascending order
RECURSIVE Ascending(_)
Ascending(ids) ==
  IF ids = {} THEN << >>
  ELSE LET least == CHOOSE k \in ids : \A j \in ids : k <= j IN
         <<least>> \o Ascending(ids \ {least})

\* C14: syncAllPollsMetadata merges the ids 1..totalPolls one at a time in
\* ascending order; an id whose merge gives no record is left out and never
\* ends the batch; the list it returns holds exactly the ids that were merged,
\* in ascending order; and when the count cannot be read it returns the empty
\* list instead of throwing.
C14_BatchAscending ==
  /\ batchPc = "loop" =>
       /\ syncedPolls = Ascending(batchMerged)
       /\ batchMerged \subseteq 1..(batchI - 1)
  /\ batchReturn = "list" =>
       /\ batchI = batchCount + 1
       /\ syncedPolls = Ascending(batchMerged)
       /\ \A k \in batchMerged : store[k] # NoRow /\ store[k].lastSynced # UndefNum
  /\ batchReturn = "empty" => syncedPolls = << >> /\ batchCount = -1

\* A batch over three ids returned with the middle id left out
C14_Witness ==
  /\ batchReturn = "list"
  /\ batchCount = 3
  /\ batchMerged = {1, 3}


\* ---------------------------------------------------------------------
\* CreatePoll: handleSubmit and the status callback of signAndSend
\* ---------------------------------------------------------------------

\* x.toString(): of null and undefined it throws; an object without a
\* toString of its own gives "[object Object]"
ToStringOf(x) ==
  CASE x.t = "string" -> x
    [] x.t = "number" -> Str(DecimalString(x.v))
    [] x.t = "object" ->
         IF In("toString", x) THEN Call(x, "toString")
         ELSE Str(<<"[", "o", "b", "j", "e", "c", "t", " ", "O", "b", "j", "e", "c", "t", "]">>)
    [] x.t = "array" -> Str(<<",">>)
    [] OTHER -> Thrown

\* s.replace('0x', ''): the first occurrence is removed
ReplaceHexPrefix(s) ==
  LET at == {i \in 1..(Len(s) - 1) : s[i] = "0" /\ s[i + 1] = "x"} IN
    IF at = {} THEN s
    ELSE LET first == CHOOSE i \in at : \A j \in at : i <= j IN
           SubSeq(s, 1, first - 1) \o SubSeq(s, first + 2, Len(s))

\* parseInt(s, 16): an optional "0x", then the longest run of hexadecimal
\* digits; NaN when there is none
ParseInt16(s) ==
  LET body == IF HasHexPrefix(s) THEN SubSeq(s, 3, Len(s)) ELSE s
      run == CHOOSE n \in 0..Len(body) :
               /\ \A i \in 1..n : IsDigit(body[i], 16)
               /\ n = Len(body) \/ ~IsDigit(body[n + 1], 16)
  IN IF run = 0 THEN NaN ELSE Num(NumeralValue(SubSeq(body, 1, run), 16))

\* `Number(topic) || parseInt(topic.toString().replace('0x', ''), 16) || 0`
TopicId(topic) ==
  IF Truthy(ToNumber(topic)) THEN ToNumber(topic)
  ELSE IF IsThrown(ToStringOf(topic)) THEN Thrown
  ELSE OrZero(ParseInt16(ReplaceHexPrefix(ToStringOf(topic).s)))

\* What contract.abi.decodeEvent(eventRecord) gives: it throws, or an event
\* identifier with its arguments
DecodeThrows == [kind |-> "throws", identifier |-> "", args |-> << >>]
Decoded(identifier, args) == [kind |-> "decoded", identifier |-> identifier, args |-> args]

\* An event record of a status update: event.section, event.method,
\* event.identifier ("" when it has none), event.data, and what decodeEvent
\* gives for the record
EventRecord(section, method, identifier, data, decoded) ==
  [section |-> section, method |-> method, identifier |-> identifier,
   data |-> data, decoded |-> decoded]

\* The state of the loop over result.events: pollId and whether `break` ran
Go(pollId) == [pollId |-> pollId, break |-> FALSE]
Break(pollId) == [pollId |-> pollId, break |-> TRUE]

\* The topic branch of the first block: a throw leaves pollId as it was
TopicStep(data, pollId) ==
  LET topics == IF data.t = "object" /\ In("topics", data) /\ Truthy(Get(data, "topics"))
                  THEN Get(data, "topics")
                  ELSE Arr(<< >>)                 \* `(event.data as any).topics || []`
  IN
    IF IsArray(topics) /\ Length(topics) > 1 /\ Truthy(At(topics, 1))
      THEN IF IsThrown(TopicId(At(topics, 1))) THEN Go(pollId)
           ELSE IF Positive(TopicId(At(topics, 1))) THEN Break(TopicId(At(topics, 1)))
           ELSE Go(TopicId(At(topics, 1)))
      ELSE Go(pollId)

\* The first block of the loop body: decodeEvent, then the topics of event.data
DecodeStep(eventRecord, pollId) ==
  IF (eventRecord.section = "contracts"
        /\ eventRecord.method \in {"ContractEmitted", "ContractExecution"})
     \/ eventRecord.method = "PollCreated"
    THEN IF eventRecord.decoded.kind = "decoded"
            /\ eventRecord.decoded.identifier = "PollCreated"
            /\ Len(eventRecord.decoded.args) > 0
           THEN Break(OrZero(ToNumber(eventRecord.decoded.args[1])))
         ELSE IF IsZero(pollId) /\ Truthy(eventRecord.data)
           THEN TopicStep(eventRecord.data, pollId)
         ELSE Go(pollId)
    ELSE Go(pollId)

\* The second block of the loop body, without the try / catch around the
\* conversion of topics[1]: the throw leaves the loop over the events
DataStep_NoCatch(eventRecord, pollId) ==
  IF IsZero(pollId)
     /\ (IF eventRecord.method # "" THEN eventRecord.method ELSE eventRecord.identifier)
          \in {"PollCreated", "ContractEmitted"}
     /\ Truthy(eventRecord.data)
    THEN IF IsArray(eventRecord.data) /\ Length(eventRecord.data) > 0
           THEN IF Positive(OrZero(ToNumber(At(eventRecord.data, 0))))
                  THEN Break(OrZero(ToNumber(At(eventRecord.data, 0))))
                  ELSE Go(OrZero(ToNumber(At(eventRecord.data, 0))))
         ELSE IF TypeOf(eventRecord.data) = "object"
                 /\ ~IsArray(eventRecord.data)
                 /\ In("topics", eventRecord.data)
                 /\ IsArray(Get(eventRecord.data, "topics"))
                 /\ Length(Get(eventRecord.data, "topics")) > 1
           THEN LET id == TopicId(At(Get(eventRecord.data, "topics"), 1)) IN
                  IF IsThrown(id) THEN Break(pollId)
                  ELSE IF Positive(id) THEN Break(id)
                  ELSE Go(id)
         ELSE Go(pollId)
    ELSE Go(pollId)

\* The second block of the loop body: event.data as an array, or its topics
DataStep(eventRecord, pollId) ==
  IF IsZero(pollId)
     /\ (IF eventRecord.method # "" THEN eventRecord.method ELSE eventRecord.identifier)
          \in {"PollCreated", "ContractEmitted"}
     /\ Truthy(eventRecord.data)
    THEN IF IsArray(eventRecord.data) /\ Length(eventRecord.data) > 0
           THEN IF Positive(OrZero(ToNumber(At(eventRecord.data, 0))))
                  THEN Break(OrZero(ToNumber(At(eventRecord.data, 0))))
                  ELSE Go(OrZero(ToNumber(At(eventRecord.data, 0))))
         ELSE IF TypeOf(eventRecord.data) = "object"
                 /\ ~IsArray(eventRecord.data)
                 /\ In("topics", eventRecord.data)
                 /\ IsArray(Get(eventRecord.data, "topics"))
                 /\ Length(Get(eventRecord.data, "topics")) > 1
           THEN LET id == TopicId(At(Get(eventRecord.data, "topics"), 1)) IN
                  IF IsThrown(id) THEN Go(pollId)
                  ELSE IF Positive(id) THEN Break(id)
                  ELSE Go(id)
         ELSE Go(pollId)
    ELSE Go(pollId)

\* `for (const eventRecord of result.events)`, from `let pollId = 0`
RECURSIVE EventsLoop(_, _)
EventsLoop(events, pollId) ==
  IF events = << >> THEN pollId
  ELSE LET first == DecodeStep(Head(events), pollId) IN
         IF first.break THEN first.pollId
         ELSE LET second == DataStep(Head(events), first.pollId) IN
                IF second.break THEN second.pollId
                ELSE EventsLoop(Tail(events), second.pollId)

\* pollId after the loop over the events of a status update
EventsPollId(events) == EventsLoop(events, Num(0)).v


\* The inline decoder of the aggregate-count fallback: the human Ok / ok value
\* as a string or a number, anything else 0; a throw ends in the catch
FallbackTotal(result) ==
  IF result.kind = "rejects" THEN Thrown
  ELSE LET output == result.output IN
    IF Truthy(output) /\ TypeOf(output) = "object" /\ In("toHuman", output)
      THEN LET humanOutput == Call(output, "toHuman") IN
             IF IsThrown(humanOutput) THEN Thrown
             ELSE IF Truthy(humanOutput) /\ TypeOf(humanOutput) = "object"
               THEN IF In("Ok", humanOutput) THEN SyncHumanKeyTotal(Get(humanOutput, "Ok"))
                    ELSE IF In("ok", humanOutput) THEN SyncHumanKeyTotal(Get(humanOutput, "ok"))
                    ELSE Num(0)
             ELSE Num(0)
      ELSE Num(0)

\* `if (pollId === 0 && contract)`, with the test of pollId left out
NeedsFallback_Always(pollId) == TRUE

\* `if (pollId === 0 && contract)`: contract is never null where CreatePoll renders
NeedsFallback(pollId) == pollId = 0

\* NODE_CONFIGS[nodeType].contractDeployed
NodeTypes == {"ink-local", "paseo", "polkadot"}
ContractDeployed(nodeType) == nodeType = "ink-local"

\* nodeType of CreatePoll: the prop, `nodeType = 'ink-local'` without it
EffectiveNodeType(props, selected) ==
  IF props.nodeType THEN selected ELSE "ink-local"

\* A codec integer, a hexadecimal numeral
Codec(n) == Obj(<<P("toNumber", Fn(Num(n))), P("toString", Fn(Str(DecimalString(n))))>>)
RECURSIVE HexNumeral(_)
HexNumeral(n) ==
  IF n < 16 THEN <<Digits[n + 1]>>
  ELSE HexNumeral(n \div 16) \o <<Digits[(n % 16) + 1]>>

WithTopics(id) ==
  Obj(<<P("topics", Arr(<<Str(<<"0", "x", "3", "1", "5", "d">>),
                          Str(<<"0", "x">> \o HexNumeral(id))>>))>>)
NoTopics == Obj(<<P("data", Str(<<"0", "x">>))>>)

SystemEvent(method) == EventRecord("system", method, "", Arr(<< >>), DecodeThrows)

\* The events of a status update of a createPoll that the ledger applied as
\* poll id: the shapes the callback looks for
EventShapes(id) ==
  {<<SystemEvent("ExtrinsicSuccess")>>,
   <<EventRecord("contracts", "ContractEmitted", "", WithTopics(id),
                 Decoded("PollCreated", <<Codec(id)>>)), SystemEvent("ExtrinsicSuccess")>>,
   <<EventRecord("contracts", "ContractEmitted", "", NoTopics,
                 Decoded("PollCreated", <<Str(DecimalString(id))>>))>>,
   <<EventRecord("contracts", "ContractEmitted", "", WithTopics(id), DecodeThrows)>>,
   <<EventRecord("contracts", "ContractEmitted", "", NoTopics, DecodeThrows)>>,
   <<EventRecord("contracts", "ContractEmitted", "", WithTopics(id),
                 Decoded("PollCreated", << >>))>>,
   <<EventRecord("zkPoll", "PollCreated", "", Arr(<<Num(id)>>), DecodeThrows)>>,
   <<EventRecord("contracts", "ContractEmitted", "", NoTopics,
                 Decoded("PollCreated", <<Num(0)>>)),
     EventRecord("contracts", "ContractEmitted", "", WithTopics(id), DecodeThrows)>>,
   <<EventRecord("contracts", "ContractEmitted", "", WithTopics(id + 1), DecodeThrows),
     EventRecord("contracts", "ContractEmitted", "", NoTopics,
                 Decoded("PollCreated", <<Codec(id)>>))>>,
   <<EventRecord("contracts", "ContractEmitted", "",
                 Obj(<<P("topics", Arr(<<Str(<<"0", "x", "3", "1", "5", "d">>), NullValue>>))>>),
                 DecodeThrows),
     EventRecord("contracts", "ContractEmitted", "", NoTopics,
                 Decoded("PollCreated", <<Codec(id)>>))>>}

\* What the chain can report for the transaction once it is in a block
Receipts(deployed, id) ==
  {[outcome |-> "failed", dispatchError |-> TRUE, events |-> <<SystemEvent("ExtrinsicFailed")>>, id |-> 0],
   [outcome |-> "failed", dispatchError |-> FALSE, events |-> <<SystemEvent("ExtrinsicFailed")>>, id |-> 0],
   [outcome |-> "failed", dispatchError |-> TRUE, events |-> << >>, id |-> 0]}
  \cup (IF deployed
          THEN {[outcome |-> "applied", dispatchError |-> FALSE, events |-> e, id |-> id] :
                   e \in EventShapes(id)}
          ELSE {})


\* CreatePoll as its props allow: optional nodeType and onPollCreated, passed
\* or not
CreateRenderings == {AppRendering, [nodeType |-> TRUE, onPollCreated |-> TRUE]}

InitCreate ==
  /\ IdleWatch
  /\ totalPolls \in 0..MaxInitTotal
  /\ IdleMerge
  /\ ledger = [k \in 1..MaxKey |->
                 IF k <= totalPolls THEN CHOOSE r \in RemotePolls(k) : TRUE ELSE NoPoll]
  /\ IdleDecode
  /\ IdleBatch
  /\ appNodeType \in NodeTypes
  /\ createProps \in CreateRenderings
  /\ loading = FALSE
  /\ createError = "none"
  /\ success = FALSE
  /\ sent = 0
  /\ receipt = NoReceipt
  /\ blockInfo = "unset"
  /\ totalAtSubmit = -1
  /\ runs = [u \in StatusUpdates |-> NoRun]

notCreateVars == <<decodeVars, batchVars, listVars>>

\* What is left alone while the form and the callback run
createFrame ==
  <<timeoutId, checkInterval, baselinePc, attempts, previousTotalPolls, inflight, loads,
    lastLoad, disposedAt, firstExceed, detectAt, baselineRead, attemptsAtClear, totalAtStart,
    now, syncFrame, appNodeType, createProps>>

\* handleSubmit, from the form's submit to the call of signAndSend
Submit ==
  /\ ~loading
  /\ sent < MaxSubmit
  /\ sent = 0 \/ \A u \in StatusUpdates : runs[u].pc \in {"done", "stopped"}
  /\ success' = FALSE
  /\ IF ~ContractDeployed(EffectiveNodeType(createProps, appNodeType))
       THEN /\ createError' = "notDeployed"
            /\ UNCHANGED <<loading, sent, receipt, blockInfo, totalAtSubmit, runs>>
       ELSE \E selectedAccount \in BOOLEAN :
              IF ~selectedAccount
                THEN /\ createError' = "noAccount"
                     /\ UNCHANGED <<loading, sent, receipt, blockInfo, totalAtSubmit, runs>>
                ELSE /\ createError' = "none"
                     /\ loading' = TRUE
                     /\ sent' = sent + 1
                     /\ receipt' = NoReceipt
                     /\ blockInfo' = "unset"
                     /\ totalAtSubmit' = totalPolls
                     /\ runs' = [u \in StatusUpdates |-> NoRun]
  /\ UNCHANGED <<totalPolls, ledger, store, zeroSave, createFrame>>
  /\ UNCHANGED notCreateVars

\* The poll the contract stores for the form's createPoll
CreatedPoll(id, form, t) ==
  [exists |-> TRUE, id |-> id, title |-> form.title, description |-> form.description,
   merkleRoot |-> "0x01", maxOptions |-> form.maxOptions, creator |-> "5Alice",
   isActive |-> "true", totalVotes |-> 0, createdAt |-> t,
   endsAt |-> t + form.duration, tallies |-> Zeros(form.maxOptions)]

\* The transaction gets into a block: the contract applies it, or it fails
Include ==
  /\ sent > 0
  /\ receipt = NoReceipt
  /\ \A u \in StatusUpdates : runs[u].pc = "none"
  /\ \E r \in Receipts(ContractDeployed(appNodeType) /\ totalPolls < MaxTotal, totalPolls + 1) :
       /\ receipt' = r
       /\ IF r.outcome = "applied"
            THEN /\ totalPolls' = r.id
                 /\ ledger' = [ledger EXCEPT
                                 ![r.id] = CreatedPoll(r.id, CHOOSE f \in Forms : TRUE, now)]
            ELSE UNCHANGED <<totalPolls, ledger>>
  /\ UNCHANGED <<loading, createError, success, sent, blockInfo, totalAtSubmit, runs>>
  /\ UNCHANGED <<store, zeroSave, createFrame>>
  /\ UNCHANGED notCreateVars

\* Another client's createPoll is applied by the contract
OtherCreates ==
  /\ totalPolls < MaxTotal
  /\ totalPolls' = totalPolls + 1
  /\ ledger' = [ledger EXCEPT ![totalPolls + 1] = CHOOSE r \in RemotePolls(totalPolls + 1) : TRUE]
  /\ UNCHANGED <<loading, createError, success, sent, receipt, blockInfo, totalAtSubmit, runs>>
  /\ UNCHANGED <<store, zeroSave, createFrame>>
  /\ UNCHANGED notCreateVars

\* The end of the callback: setLoading(false), setSuccess(true),
\* `if (onPollCreated) onPollCreated()`
Finished(run) == [run EXCEPT !.pc = "done", !.notified = createProps.onPollCreated]

\* `if (pollId > 0) { ... await savePollMetadata(...) }`: the call is made with
\* Date.now() and the block data handleSubmit holds by then
Persisting(run, pollId, block) ==
  IF pollId > 0
    THEN [run EXCEPT !.pc = "save", !.pollId = pollId, !.createdAt = now, !.block = block]
    ELSE Finished([run EXCEPT !.pollId = pollId])

\* The callback from the loop over the events to its next await
AfterEvents(run, block) ==
  LET id == EventsPollId(receipt.events) IN
    IF NeedsFallback(id)
      THEN [run EXCEPT !.pc = "query", !.eventsId = id, !.pollId = id]
      ELSE Persisting([run EXCEPT !.eventsId = id], id, block)

\* What the callback leaves in loading, error and success when it ends as `run`
CallbackEnds(run, error) ==
  /\ createError' = IF run.pc = "stopped" THEN error ELSE createError
  /\ loading' = IF run.pc \in {"stopped", "done"} THEN FALSE ELSE loading
  /\ success' = IF run.pc = "done" THEN TRUE ELSE success

\* The status callback's first checks, which go on after setError
Fails_GoesOn(r) == "none"

\* The status callback's first checks, which return after setError
Fails(r) ==
  IF r.dispatchError THEN "dispatchError"
  ELSE IF \E i \in DOMAIN r.events :
            r.events[i].section = "system" /\ r.events[i].method = "ExtrinsicFailed"
    THEN "extrinsicFailed"
  ELSE "none"

\* signAndSend's callback is invoked with the InBlock, later the Finalized, status
Deliver ==
  \E u \in StatusUpdates :
    /\ receipt # NoReceipt
    /\ runs[u].pc = "none"
    /\ u = "Finalized" => runs["InBlock"].pc # "none"
    /\ LET run == IF Fails(receipt) # "none" THEN [runs[u] EXCEPT !.pc = "stopped"]
                  ELSE IF u = "InBlock" THEN [runs[u] EXCEPT !.pc = "block"]
                  ELSE AfterEvents(runs[u], blockInfo)
       IN /\ runs' = [runs EXCEPT ![u] = run]
          /\ CallbackEnds(run, Fails(receipt))
    /\ UNCHANGED <<sent, receipt, blockInfo, totalAtSubmit>>
    /\ UNCHANGED <<totalPolls, ledger, store, zeroSave, createFrame>>
    /\ UNCHANGED notCreateVars

\* `await api.rpc.chain.getBlock(...)` of the InBlock invocation returns or throws
BlockReturns ==
  /\ runs["InBlock"].pc = "block"
  /\ \E block \in {"full", "txOnly"} :
       /\ blockInfo' = block
       /\ runs' = [runs EXCEPT !["InBlock"] = AfterEvents(runs["InBlock"], block)]
       /\ CallbackEnds(AfterEvents(runs["InBlock"], block), "none")
  /\ UNCHANGED <<sent, receipt, totalAtSubmit>>
  /\ UNCHANGED <<totalPolls, ledger, store, zeroSave, createFrame>>
  /\ UNCHANGED notCreateVars

\* The fallback ends: getDevAccounts gave no address, or the query was answered
\* after the 2 s wait "para que la transaccion se procese", from the state
\* after the block of the write or, when the node answers from a state that
\* does not hold that block yet, from the state before it
QueryReturns ==
  \E u \in StatusUpdates :
    /\ runs[u].pc = "query"
    /\ \E queryAddress \in BOOLEAN : \E count \in {totalPolls, receipt.id - 1} :
       \E result \in {Resolved(Encode(e, count), Undefined) : e \in Encodings}
                        \cup FailedResults :
         LET found == IF queryAddress /\ Positive(FallbackTotal(result))
                        THEN FallbackTotal(result).v ELSE 0   \* `if (total > 0) pollId = total`
             pollId == IF found > 0 THEN found ELSE runs[u].pollId
             run == Persisting([runs[u] EXCEPT !.countRead = IF queryAddress THEN count ELSE -1],
                               pollId, blockInfo)
         IN /\ runs' = [runs EXCEPT ![u] = run]
            /\ CallbackEnds(run, "none")
    /\ UNCHANGED <<sent, receipt, blockInfo, totalAtSubmit>>
    /\ UNCHANGED <<totalPolls, ledger, store, zeroSave, createFrame>>
    /\ UNCHANGED notCreateVars

\* The form with the block data a savePollMetadata call was given
FormWith(block) ==
  LET form == CHOOSE f \in Forms : TRUE IN
    CASE block = "full" -> form
      [] block = "txOnly" -> [form EXCEPT !.blockNumber = 0, !.blockHash = ""]
      [] OTHER -> [form EXCEPT !.blockNumber = 0, !.blockHash = "", !.transactionHash = ""]

\* `await savePollMetadata(...)` of the callback ends; a rejection is caught
SaveEnds ==
  \E u \in StatusUpdates :
    /\ runs[u].pc = "save"
    /\ LET metadata == CreateMetadata(runs[u].pollId, FormWith(runs[u].block), runs[u].createdAt) IN
         \E outcome \in SaveOutcomes(metadata) :
           /\ SavePollMetadata(metadata, outcome)
           /\ runs' = [runs EXCEPT ![u] = Finished([runs[u] EXCEPT !.saved = outcome])]
           /\ CallbackEnds(Finished(runs[u]), "none")
    /\ UNCHANGED <<sent, receipt, blockInfo, totalAtSubmit>>
    /\ UNCHANGED <<totalPolls, ledger, createFrame>>
    /\ UNCHANGED notCreateVars

NextCreate ==
  \/ Submit
  \/ Include
  \/ OtherCreates
  \/ Deliver
  \/ BlockReturns
  \/ QueryReturns
  \/ SaveEnds

SpecCreate == InitCreate /\ [][NextCreate]_vars


\* C12, as claimed: the two invocations of the resolution chain for one receipt
\* end with the same pollId, or both with 0, whatever happened on the ledger
\* between them.
C12_Original ==
  (runs["InBlock"].pc \in {"save", "done"} /\ runs["Finalized"].pc \in {"save", "done"})
    => runs["InBlock"].pollId = runs["Finalized"].pollId

\* C12: when an event of the receipt yields a positive identifier, every
\* invocation of the resolution chain for that receipt ends with that
\* identifier, whatever happened on the ledger in between; when no event does,
\* an invocation ends with the aggregate count it read itself, or with 0.
C12_EventsDecide ==
  \A u \in StatusUpdates :
    runs[u].pc \in {"save", "done"} =>
      IF EventsPollId(receipt.events) > 0
        THEN /\ runs[u].pollId = EventsPollId(receipt.events)
             /\ runs[u].countRead = -1
        ELSE runs[u].pollId \in {0, runs[u].countRead}

\* Both invocations ended with the identifier of the events although another
\* poll was created meanwhile
C12_Witness ==
  /\ runs["InBlock"].pc = "done" /\ runs["Finalized"].pc = "done"
  /\ EventsPollId(receipt.events) > 0
  /\ totalPolls > receipt.id
  /\ runs["InBlock"].pollId = receipt.id /\ runs["Finalized"].pollId = receipt.id

\* C13: once the callback has handled an inclusion, a cache row exists under
\* the resolved pollId if and only if that pollId is positive, no save was made
\* when it is 0, and onPollCreated was invoked in both cases.
C13_Claim ==
  \A u \in StatusUpdates :
    runs[u].pc = "done" =>
      /\ runs[u].pollId > 0 =>
           /\ runs[u].saved = "ok"
           /\ store[runs[u].pollId] # NoRow
           /\ store[runs[u].pollId].pollId = runs[u].pollId
      /\ runs[u].pollId = 0 => runs[u].saved = "none"
      /\ runs[u].notified

\* C15: while the network selected in the application has no deployed
\* contract, signAndSend has not been called.
C15_Claim == ~ContractDeployed(appNodeType) => sent = 0

\* C16: a status update with a dispatchError or a system.ExtrinsicFailed event
\* sets the error and ends the callback there: while the chain reports the
\* transaction as failed, no invocation resolves an identifier, saves a row or
\* invokes onPollCreated, the store is not written and signAndSend is not
\* called again.
C16_FailureStops ==
  [][(receipt.outcome = "failed" /\ receipt' = receipt) =>
       /\ store' = store
       /\ sent' = sent
       /\ \A u \in StatusUpdates :
            /\ runs'[u].pc \in {"none", "stopped"}
            /\ runs'[u].eventsId = -1 /\ runs'[u].countRead = -1
            /\ runs'[u].saved = "none"
            /\ ~runs'[u].notified
            /\ (runs[u].pc = "none" /\ runs'[u].pc = "stopped") =>
                 /\ createError' \in {"dispatchError", "extrinsicFailed"}
                 /\ ~loading'
                 /\ ~success']_vars

\* Both status updates of a failed transaction were handled by a CreatePoll
\* that was given onPollCreated
C16_Witness ==
  /\ receipt.outcome = "failed"
  /\ createProps.onPollCreated
  /\ runs["InBlock"].pc = "stopped" /\ runs["Finalized"].pc = "stopped"
  /\ createError = "extrinsicFailed"
  /\ ~loading

\* C23 as stated: a candidate that is not a positive integer is discarded and
\* the remaining strategies are still tried: when an event of the receipt
\* that the loop examines carries a positive identifier at index 1 of its
\* topics, the loop over the events ends with a positive pollId, also when a
\* schema-decoded PollCreated argument was non-positive or non-numeric.
C23_Claim ==
  \A u \in StatusUpdates :
    (/\ runs[u].eventsId # -1
     /\ \E i \in DOMAIN receipt.events :
          /\ receipt.events[i].section = "contracts"
          /\ receipt.events[i].method = "ContractEmitted"
          /\ TopicStep(receipt.events[i].data, Num(0)).break)
      => runs[u].eventsId > 0

\* C24 as stated: schema-aware decoding has priority over the topics across
\* the whole receipt: when some event of the receipt decodes to PollCreated
\* with a positive first argument, the loop over the events ends with that
\* argument as pollId.
C24_Claim ==
  \A u \in StatusUpdates :
    runs[u].eventsId # -1 =>
      \A i \in DOMAIN receipt.events :
        LET decoded == receipt.events[i].decoded IN
          (/\ receipt.events[i].section = "contracts"
           /\ decoded.kind = "decoded"
           /\ decoded.identifier = "PollCreated"
           /\ Len(decoded.args) > 0
           /\ Positive(OrZero(ToNumber(decoded.args[1]))))
            => runs[u].eventsId = OrZero(ToNumber(decoded.args[1])).v

\* C25: an exception thrown by decodeEvent or by the conversion of a topic
\* is caught where it is thrown: the other strategies for that event and the
\* events after it are still examined, so that an identifier carried by that
\* event or a later one is found (unless a schema-decoded candidate ended the
\* loop before), and the invocation goes on to the save and to the end of the
\* callback.
C25_DecodeErrorsContained ==
  LET events == receipt.events
      Topics(i) == IF events[i].data.t = "object" /\ In("topics", events[i].data)
                     THEN Get(events[i].data, "topics") ELSE Arr(<< >>)
      Raises(i) == /\ events[i].section = "contracts"
                   /\ \/ events[i].decoded.kind = "throws"
                      \/ Length(Topics(i)) > 1 /\ IsThrown(TopicId(At(Topics(i), 1)))
      SchemaCandidate(i) == /\ events[i].decoded.kind = "decoded"
                            /\ events[i].decoded.identifier = "PollCreated"
                            /\ Len(events[i].decoded.args) > 0
      Carries(i) == /\ events[i].section = "contracts"
                    /\ \/ SchemaCandidate(i)
                          /\ Positive(OrZero(ToNumber(events[i].decoded.args[1])))
                       \/ Length(Topics(i)) > 1
                          /\ ~IsThrown(TopicId(At(Topics(i), 1)))
                          /\ Positive(TopicId(At(Topics(i), 1)))
  IN
  \A u \in StatusUpdates :
    (runs[u].eventsId # -1 /\ \E i \in DOMAIN events : Raises(i)) =>
      /\ runs[u].pc \in {"query", "save", "done"}
      /\ runs[u].eventsId > 0 => runs[u].pollId = runs[u].eventsId
      /\ \A i \in DOMAIN events :
           (/\ Raises(i)
            /\ \A j \in 1..(i - 1) : ~SchemaCandidate(j)
            /\ \E k \in i..Len(events) : Carries(k))
             => runs[u].eventsId > 0

\* decodeEvent and the conversion of topics[1] both threw on the first event,
\* the identifier was decoded from the second one, and the callback saved the
\* row and ended
C25_Witness ==
  /\ Len(receipt.events) = 2
  /\ receipt.events[1].decoded.kind = "throws"
  /\ IsThrown(TopicId(At(Get(receipt.events[1].data, "topics"), 1)))
  /\ runs["InBlock"].pc = "done"
  /\ runs["InBlock"].eventsId = receipt.id
  /\ runs["InBlock"].saved = "ok"

\* C26 as stated: for one submitted createPoll the inclusion handling runs
\* once: at most one invocation of the callback resolves an identifier, the
\* rows saved for the write have one key, and at most one invocation reaches
\* onPollCreated, although the InBlock and the Finalized status are both
\* delivered.
C26_Claim ==
  /\ Cardinality({u \in StatusUpdates : runs[u].eventsId # -1}) <= 1
  /\ Cardinality({runs[u].pollId : u \in {v \in StatusUpdates : runs[v].saved = "ok"}}) <= 1
  /\ Cardinality({u \in StatusUpdates : runs[u].notified}) <= 1

\* C28 as stated: for every result of the getTotalPolls query, the decoder of
\* PollList.getTotalPolls, the inline decoder of syncAllPollsMetadata and the
\* inline decoder of the aggregate-count fallback of CreatePoll give the same
\* integer (a decoder that throws or gives nothing counting as 0).
C28_Claim ==
  (decodedTotal # -1 /\ queryResult.queryAddress) =>
    LET result == queryResult.result
        syncTotal == IF result.kind = "rejects" THEN Thrown
                     ELSE SyncPriority2(result.output, SyncPriority1(result.output))
        fallbackTotal == FallbackTotal(result)
    IN /\ decodedTotal = IF Positive(syncTotal) THEN syncTotal.v ELSE 0
       /\ decodedTotal = IF Positive(fallbackTotal) THEN fallbackTotal.v ELSE 0

\* C29 as stated: the aggregate-count fallback takes the count as the new
\* poll's id only if it is above the count the ledger held when the write was
\* submitted: an identifier resolved by the fallback is never the id of a
\* poll that existed by then.
C29_Claim ==
  \A u \in StatusUpdates :
    (runs[u].eventsId = 0 /\ runs[u].pollId > 0) => runs[u].pollId > totalAtSubmit

\* C30 as stated: a row created after a createPoll write is keyed by the id
\* the ledger assigned to that write, also when the id was obtained through
\* the aggregate-count fallback while other clients create polls: every
\* invocation that saves the form's metadata saves it under receipt.id, and
\* the row it has written holds that key.
C30_Claim ==
  \A u \in StatusUpdates :
    /\ runs[u].pc = "save" => runs[u].pollId = receipt.id
    /\ runs[u].saved = "ok" =>
         /\ runs[u].pollId = receipt.id
         /\ store[receipt.id] # NoRow
         /\ store[receipt.id].pollId = receipt.id

\* C31 as stated: the remote record getPollMetadataFromContract returns holds
\* no voteTallies or isActive value that was not read from the ledger: its
\* voteTallies is what the ledger holds for the poll, or holds no value at
\* all when the tallies query failed or was not Ok.
C31_Claim ==
  syncContract # Null =>
     /\ syncContract.voteTallies \in {<< >>, ledger[syncId].tallies}
     /\ syncContract.isActive = ledger[syncId].isActive

\* C32 as stated: every remote record with exists = true that
\* getPollMetadataFromContract returns has a voteTallies sequence as long as
\* its maxOptions, whatever the tallies query gave.
C32_Claim ==
  (syncContract # Null /\ syncContract.exists) =>
     Len(syncContract.voteTallies) = syncContract.maxOptions

\* C34: the write-back of syncPollMetadata leaves every row with another
\* pollId as it was, and in the row of the synced poll it changes only the
\* remote-sourced fields and lastSynced: when the row is, at the write-back,
\* the row the sync read, its optionNames, duration, blockNumber, blockHash,
\* transactionHash and chainMetadata are the same after the write-back, so
\* that they survive any sequence of successful syncs.
C34_SyncFrame ==
  [][(syncPc = "save" /\ syncPc' = "done" /\ store' # store) =>
       /\ \A k \in DOMAIN store : k # syncId => store'[k] = store[k]
       /\ store'[syncId] # NoRow
       /\ store'[syncId].pollId = syncId
       /\ (store[syncId] # NoRow /\ syncLocal = store[syncId]) =>
            \A f \in LocalOnlyFields : store'[syncId][f] = store[syncId][f]]_vars

\* A second successful sync of a poll whose row CreatePoll wrote: the row
\* holds the remote title and a lastSynced stamp, and still the option names
\* and the block data of the form
C34_Witness ==
  /\ syncPc = "done"
  /\ syncPuts = 1
  /\ syncLocal # Null
  /\ syncLocal.lastSynced # UndefNum
  /\ store[syncId] # NoRow
  /\ store[syncId].title = "RT1"
  /\ store[syncId].lastSynced # UndefNum
  /\ store[syncId].optionNames = <<"A", "B">>
  /\ store[syncId].blockNumber = 7

\* C36 as stated: once the option names of a poll are in its cache row, a
\* write-back of syncPollMetadata keeps them, also when the sync read the
\* row before CreatePoll wrote it: the write-back never replaces the option
\* names of a row by others or by an empty list.
C36_Claim ==
  [][(syncPc = "save" /\ syncPc' = "done") =>
       \A k \in DOMAIN store :
         (store[k] # NoRow /\ store[k].optionNames # << >>) =>
            /\ store'[k] # NoRow
            /\ store'[k].optionNames = store[k].optionNames]_vars

\* C37 as stated: the watch takes the detection branch (refresh because the
\* polled count is above the baseline, then stop) only if the aggregate
\* count of the ledger has risen since the watch started; a baseline read
\* that failed and gave 0 does not by itself lead to a detection.
C37_Claim ==
  loads.detect > 0 => totalPolls > totalAtStart

\* ---------------------------------------------------------------------
\* PollList.loadPolls
\* ---------------------------------------------------------------------

InitList ==
  /\ IdleWatch
  /\ totalPolls \in 0..MaxInitTotal
  /\ IdleMerge
  /\ ledger = [k \in 1..MaxKey |->
                 IF k <= totalPolls THEN CHOOSE r \in RemotePolls(k) : TRUE ELSE NoPoll]
  /\ IdleDecode
  /\ IdleBatch
  /\ IdleCreate

\* What the list part leaves alone
listFrame == <<watchVars, ledger, now, syncFrame, decodeVars, batchVars, createVars>>

\* loadPolls() called by the effect when the component mounts only, with no
\* interval and no watcher to call it again
LoadStarts_MountOnly ==
  /\ listLoading
  /\ loadRuns[1].pc = "none"
  /\ loadRuns' = [loadRuns EXCEPT ![1].pc = "count"]
  /\ loadOrder' = Append(loadOrder, 1)
  /\ listError' = FALSE
  /\ UNCHANGED <<polls, listLoading, failures, store, zeroSave>>
  /\ UNCHANGED listFrame

\* loadPolls() is called with a query address, by the 5000 ms interval, by
\* the effect that installs it or by the watcher: `setError(null)`, then the
\* await of getTotalPolls()
LoadStarts ==
  \E s \in 1..MaxLoads :
    /\ loadRuns[s].pc = "none"
    /\ \A t \in 1..(s - 1) : loadRuns[t].pc # "none"
    /\ loadRuns' = [loadRuns EXCEPT ![s].pc = "count"]
    /\ loadOrder' = Append(loadOrder, s)
    /\ listError' = FALSE
    /\ UNCHANGED <<polls, listLoading, failures, store, zeroSave>>
    /\ UNCHANGED listFrame

\* The end of the invocation in slot s: `setPolls(pollsData)`, or the catch
\* with `setError(...)`, then `setLoading(false)`
LoadEnds(s, pollsData, thrown) ==
  /\ polls' = IF thrown THEN polls ELSE pollsData
  /\ listError' = (thrown \/ listError)
  /\ listLoading' = FALSE
  /\ loadOrder' = SelectSeq(loadOrder, LAMBDA t : t # s)
  /\ loadRuns' =
       [t \in 1..MaxLoads |->
          IF t = s
            THEN [pc |-> "none", total |-> 0, i |-> 0, pollsData |-> << >>,
                  superseded |-> FALSE]
          ELSE IF ~thrown /\ loadRuns[t].pc # "none"
                  /\ \E a, b \in 1..Len(loadOrder) :
                       a < b /\ loadOrder[a] = t /\ loadOrder[b] = s
            THEN [loadRuns[t] EXCEPT !.superseded = TRUE]
          ELSE loadRuns[t]]

\* What getTotalPolls() returns to loadPolls when the ledger holds n polls:
\* for a query that fails or answers in a shape that is not read, and for an
\* answer that carries n in one of the encodings
ReadTotals ==
  [failed \in BOOLEAN |->
     [n \in 0..MaxTotal |->
        {getTotalPolls(TRUE, result) :
           result \in IF failed THEN FailedResults
                      ELSE {Resolved(Encode(e, n), Undefined) : e \in Encodings}}]]

\* `await getTotalPolls()` ends: with a total of 0 the loop is skipped and
\* the invocation ends, else the loop starts with the await of getPoll(1)
CountReturns ==
  \E s \in 1..MaxLoads : \E failed \in BOOLEAN :
    /\ loadRuns[s].pc = "count"
    /\ failed => failures < MaxFailures
    /\ failures' = IF failed THEN failures + 1 ELSE failures
    /\ \E total \in ReadTotals[failed][totalPolls] :
         IF total = 0
           THEN LoadEnds(s, << >>, FALSE)
           ELSE /\ loadRuns' = [loadRuns EXCEPT ![s].pc = "loop", ![s].total = total,
                                                ![s].i = 1]
                /\ UNCHANGED <<polls, listLoading, listError, loadOrder>>
    /\ UNCHANGED <<store, zeroSave>>
    /\ UNCHANGED listFrame

\* One turn of the loop, from the return of getPoll(i) to the await of
\* getPoll(i + 1) or, after the last turn, to the end of the invocation.
\* getPoll answers { exists: false } for a missing output, an Err and an
\* AccountId error, and rethrows every other error into the catch of loadPolls.
\* For a poll that is listed, getPollMetadataFromContract and syncPollMetadata
\* run inside a try of their own
PollLoaded ==
  \E s \in 1..MaxLoads :
    LET run == loadRuns[s] IN
      /\ run.pc = "loop"
      /\ \E pollResp \in PollResponses(run.i) :
         \E accountIdError \in IF pollResp.kind = "throws" THEN BOOLEAN ELSE {FALSE} :
           LET poll == PollDataOf(IF pollResp.kind = "Ok" THEN pollResp.tuple
                                  ELSE PollTuple(run.i), [kind |-> "notOk"])
               listed == pollResp.kind = "Ok" /\ poll.exists /\ poll.id # 0 /\ poll.title # ""
               pollsData == IF listed THEN Append(run.pollsData, poll.id) ELSE run.pollsData
               fetched == {getPollMetadataFromContract(poll.id, r, t) :
                             r \in PollResponses(poll.id), t \in TalliesResponses(poll.id)}
               merges == {IF contractPollData # Null /\ ~SyncGivesUp(contractData) /\ read = "ok"
                            THEN SyncedMetadata(contractData, GetPollMetadata(store, poll.id), now)
                            ELSE Null :
                          contractPollData \in fetched, contractData \in fetched,
                          read \in {"ok", "rejects"}}
           IN
             /\ pollResp.kind # "Ok" => failures < MaxFailures
             /\ failures' = IF pollResp.kind # "Ok" THEN failures + 1 ELSE failures
             /\ IF listed
                  THEN \E syncedMetadata \in merges :
                         IF syncedMetadata = Null
                           THEN UNCHANGED <<store, zeroSave>>
                           ELSE \E outcome \in SaveOutcomes(syncedMetadata) :
                                  SavePollMetadata(syncedMetadata, outcome)
                  ELSE UNCHANGED <<store, zeroSave>>
             /\ IF pollResp.kind = "throws" /\ ~accountIdError
                  THEN LoadEnds(s, run.pollsData, TRUE)
                  ELSE IF run.i = run.total
                    THEN LoadEnds(s, pollsData, FALSE)
                    ELSE /\ loadRuns' = [loadRuns EXCEPT ![s].i = run.i + 1,
                                                         ![s].pollsData = pollsData]
                         /\ UNCHANGED <<polls, listLoading, listError, loadOrder>>
      /\ UNCHANGED listFrame

NextList ==
  \/ LoadStarts
  \/ CountReturns
  \/ PollLoaded
  \/ OtherCreates

SpecList == InitList /\ [][NextList]_vars

\* C33 as stated: when a loadPolls invocation in its loop ends, it has taken
\* every id of 1..count and the displayed list has been replaced by the polls
\* it read; a failed read of one poll omits that poll only.
C33_Claim ==
  [][\A s \in 1..MaxLoads :
       (loadRuns[s].pc = "loop" /\ loadRuns'[s].pc = "none") =>
          /\ loadRuns[s].i = loadRuns[s].total
          /\ Len(polls') >= Len(loadRuns[s].pollsData)
          /\ SubSeq(polls', 1, Len(loadRuns[s].pollsData)) = loadRuns[s].pollsData]_vars

\* C38 as stated: an invocation that ends after one that started later has
\* set the displayed list leaves the list as the later one set it.
C38_Claim ==
  [][\A s \in 1..MaxLoads :
       (loadRuns[s].pc # "none" /\ loadRuns[s].superseded /\ loadRuns'[s].pc = "none") =>
          polls' = polls]_vars

\* The periodic reload keeps calling loadPolls while PollList is mounted, and
\* every await of an invocation ends
SpecListFair ==
  /\ SpecList
  /\ WF_vars(LoadStarts)
  /\ WF_vars(CountReturns)
  /\ WF_vars(PollLoaded)

====
